---- MODULE Spec2Model ----
(***************************************************************************)
(* A model of the multi-folder extension manager (ExtensionManager, the    *)
(* "Orchestrator") and of the base CMake driver (CMakeDriver) of           *)
(* vscode-cmake-tools.                                                     *)
(*                                                                         *)
(*   Spec        folders added and removed through the strand, kit reloads *)
(*               by watcher and editor events, edits of the kits files     *)
(*   SpecCmds    one folder, reloads, and one command at a time            *)
(*   SpecRacing  one folder and commands that run at the same time         *)
(*   SpecPrune   one folder and the pruning of outdated kits               *)
(*   SpecWrite   ExtensionManager._writeUserKitsFile on its own            *)
(*   SpecScan    one folder and scans over a user list with a kept kit     *)
(*   SpecDriver  one CMakeDriver: kit changes and the need to clean        *)
(*   SpecConfigure  one CMakeDriver: variants and configure arguments      *)
(*   SpecCache   one CMakeDriver: the CMake cache and its reloads          *)
(***************************************************************************)
EXTENDS Integers, Sequences, FiniteSets, TLC

(***************************************************************************)
(* JavaScript values                                                       *)
(***************************************************************************)
\* the value of a missing property
Undefined == "undefined"

\* !!x for a string-or-undefined x
Truthy(x) == x # Undefined /\ x # ""

\* obj[key] of a plain object
Get(obj, key) == IF key \in DOMAIN obj THEN obj[key] ELSE Undefined

\* an object without keys
EmptyObj == [x \in {} |-> Undefined]

(***************************************************************************)
(* Kits as the driver sees them (driver.ts:11): CompilerKit, ToolchainKit, *)
(* VSKit, told apart by `type`.                                            *)
(***************************************************************************)
Langs == {"C", "CXX"}

CompilerPaths == {"/usr/bin/gcc", "/usr/bin/clang", ""}

ToolchainFiles == {"a.cmake", "b.cmake"}

VSVersions == {"VS14", "VS15"}

VSArchs == {"x86", "amd64"}

CompilerMaps == UNION {[L -> CompilerPaths] : L \in SUBSET Langs}

\* `type` of a kit object that has none: {name: '__unspec__'} (part_000:423)
NoType == "undefined"

Kit(n, t, c, f, v, a, kp) ==
  [name |-> n, type |-> t, compilers |-> c, toolchainFile |-> f,
   visualStudio |-> v, visualStudioArchitecture |-> a, keep |-> kp]

CompilerKit(n, c) == Kit(n, "compilerKit", c, Undefined, Undefined, Undefined, FALSE)

ToolchainKit(n, f) == Kit(n, "toolchainKit", EmptyObj, f, Undefined, Undefined, FALSE)

VSKit(n, v, a) == Kit(n, "vsKit", EmptyObj, Undefined, v, a, FALSE)

\* `null` where a Kit | null is expected
NullKit == Kit("", "null", EmptyObj, Undefined, Undefined, Undefined, FALSE)

\* the kits a single driver is given in SpecDriver
DriverKits ==
  {CompilerKit("cc", c) : c \in CompilerMaps}
    \cup {ToolchainKit("tc", f) : f \in ToolchainFiles}
    \cup {VSKit("vs", v, a) : v \in VSVersions, a \in VSArchs}

\* what getVSKitEnvironment resolves a VS kit to when it succeeds
VSEnvOf(k) == <<k.visualStudio, k.visualStudioArchitecture>>

NoEnv == <<>>

\* _setBaseKit calls that may be suspended at once on one driver
MaxPending == 1

VARIABLES
  baseKit,      \* CMakeDriver._baseKit
  kitEnv,       \* CMakeDriver._kitEnvironmentVariables
  envPending,   \* _setBaseKit calls suspended in getVSKitEnvironment: their kits
  lastClean,    \* the last _kitChangeNeedsClean evaluation: its inputs and result
  lastResolve,  \* the getVSKitEnvironment answer of the last step: the kit
                \* of the call it resumes, and whether it resolved
  lastExec      \* the executeCommand call of the last step: the kit of the
                \* driver, the calls suspended, and the environment it ran with

driverVars == <<baseKit, kitEnv, envPending, lastClean, lastResolve, lastExec>>

\* options.environment of an executeCommand call
OptionEnvs == {Undefined, <<"OPT">>}

\* the environment of a subprocess: the variables of the kit, and those of
\* the options laid over them
ExecEnv(kit_env, option_env) == [kit |-> kit_env, over |-> option_env]

\* no executeCommand call in the last step
NoExec ==
  [called |-> FALSE, baseKit |-> NullKit, pending |-> 0,
   environment |-> ExecEnv(<<>>, Undefined)]

\* no getVSKitEnvironment has answered in the last step
NoResolve == [done |-> FALSE, kit |-> NullKit, ok |-> FALSE]

(***************************************************************************)
(* CMakeDriver (driver.ts)                                                 *)
(***************************************************************************)
\* the languages of a compilers map whose path differs from kit's, as the
\* callback of `some` decides it (driver.ts:226-229)
CompChangedLangs(prev, kit) ==
  {lang \in DOMAIN prev.compilers :
     Truthy(prev.compilers[lang])
       /\ prev.compilers[lang] # Get(kit.compilers, lang)}

_kitChangeNeedsClean_NoArch(prev, kit) ==
  IF prev.type = "null" THEN FALSE
  ELSE IF kit.type # prev.type THEN TRUE
  ELSE CASE kit.type = "compilerKit" -> CompChangedLangs(prev, kit) # {}
         [] kit.type = "toolchainKit" -> kit.toolchainFile # prev.toolchainFile
         [] kit.type = "vsKit" -> kit.visualStudio # prev.visualStudio
         [] OTHER -> FALSE

\* _kitChangeNeedsClean(kit) of a driver whose current kit is prev
_kitChangeNeedsClean(prev, kit) ==
  IF prev.type = "null" THEN FALSE
  ELSE IF kit.type # prev.type THEN TRUE
  ELSE CASE kit.type = "compilerKit" -> CompChangedLangs(prev, kit) # {}
         [] kit.type = "toolchainKit" -> kit.toolchainFile # prev.toolchainFile
         [] kit.type = "vsKit" ->
              kit.visualStudio # prev.visualStudio
                \/ kit.visualStudioArchitecture # prev.visualStudioArchitecture
         [] OTHER -> FALSE

BaseKitAfter_UntypedIsNull(k) == IF k.type = NoType THEN NullKit ELSE k

\* the value _setBaseKit(k) leaves in _baseKit (driver.ts:122)
BaseKitAfter(k) == k

(***************************************************************************)
(* CMakeDriver: the arguments of a configure (driver.ts:284-308, 359-368,  *)
(* 532-562)                                                                *)
(***************************************************************************)
VARIABLES
  configureSettings,         \* config.configureSettings
  variantBuildType,          \* CMakeDriver._variantBuildType
  variantConfigureSettings,  \* CMakeDriver._variantConfigureSettings
  variantLinkage,            \* CMakeDriver._variantLinkage
  generatorName,             \* CMakeDriver.generatorName
  lastConfigure,             \* the last _prepareConfigure call: what it read
                             \* and the flags it returned
  lastVariant                \* the setVariantOptions call of the last step

confVars ==
  <<configureSettings, variantBuildType, variantConfigureSettings,
    variantLinkage, generatorName, lastConfigure, lastVariant>>

\* `null` where a string | null is expected
Null == "null"

\* settings values: a boolean, a string, a number, and a value cmakeify has
\* no type for
JsBool(b) == [type |-> "boolean", val |-> IF b THEN "true" ELSE "false"]

JsStr(str) == [type |-> "string", val |-> str]

JsNum(n) == [type |-> "number", val |-> n]

JsOther == [type |-> "object", val |-> ""]

\* one property of a settings object, one entry of a variant's settings
Setting(k, v) == [key |-> k, value |-> v]

\* settings[key] = value on an object held as its properties in key order:
\* a present key keeps its place, a new key comes last
SetKey(settings, key, value) ==
  IF \E i \in 1..Len(settings) : settings[i].key = key
    THEN [i \in 1..Len(settings) |->
            IF settings[i].key = key THEN Setting(key, value) ELSE settings[i]]
    ELSE Append(settings, Setting(key, value))

AssignAll_Skip(settings, list) == settings

\* list.forEach(s => settings[s.key] = s.value) (driver.ts:535)
RECURSIVE AssignAll(_, _)
AssignAll(settings, list) ==
  IF list = <<>> THEN settings
  ELSE AssignAll(SetKey(settings, Head(list).key, Head(list).value), Tail(list))

\* util.cmakeify(value): a value of a known type is given its CMake type
Cmakeify(value) ==
  CASE value.type = "boolean" ->
         [type |-> "BOOL", value |-> IF value.val = "true" THEN "TRUE" ELSE "FALSE"]
    [] value.type = "string" -> [type |-> "STRING", value |-> value.val]
    [] value.type = "number" -> [type |-> "STRING", value |-> value.val]
    [] OTHER -> [type |-> "UNKNOWN", value |-> value.val]

\* _makeFlag(key, cmval) (driver.ts:548-555); a flag is held as the pieces
\* its text is put together from
_makeFlag(key, cmval) ==
  IF cmval.type = "UNKNOWN"
    THEN <<"-D", key, "=", cmval.value>>
    ELSE <<"-D", key, ":", cmval.type, "=", cmval.value>>

NoWarnFlag == <<"--no-warn-unused-cli">>

Generators == {"Ninja", "Unix Makefiles", "Visual Studio 15 2017", "Xcode"}

\* util.isMultiConfGenerator(gen)
IsMultiConfGenerator(gen) == gen \in {"Visual Studio 15 2017", "Xcode"}

isMultiConf_Never(gen) == FALSE

\* the getter isMultiConf of a driver whose generatorName is gen
\* (driver.ts:359-361)
isMultiConf(gen) == IF gen # Null THEN IsMultiConfGenerator(gen) ELSE FALSE

\* the settings object _prepareConfigure ends with (driver.ts:533-546)
ConfigureSettingsOf(cfg, vset, linkage, gen, buildType) ==
  LET s1 == AssignAll(cfg, vset)
      s2 == IF linkage # Null
              THEN SetKey(s1, "BUILD_SHARED_LIBS", JsBool(linkage = "shared"))
              ELSE s1
      s3 == SetKey(s2, "CMAKE_EXPORT_COMPILE_COMMANDS", JsBool(TRUE))
  IN IF ~isMultiConf(gen)
       THEN SetKey(s3, "CMAKE_BUILD_TYPE", JsStr(buildType))
       ELSE s3

\* the flags _prepareConfigure returns (driver.ts:556-561)
_prepareConfigure(cfg, vset, linkage, gen, buildType) ==
  LET settings == ConfigureSettingsOf(cfg, vset, linkage, gen, buildType) IN
  <<NoWarnFlag>> \o
    [i \in 1..Len(settings) |-> _makeFlag(settings[i].key, Cmakeify(settings[i].value))]

\* values of cmake.configureSettings
SettingsChoices ==
  {<<>>,
   <<Setting("X", JsNum("1"))>>,
   <<Setting("BUILD_SHARED_LIBS", JsBool(FALSE)), Setting("X", JsNum("1")),
     Setting("CMAKE_EXPORT_COMPILE_COMMANDS", JsBool(FALSE))>>,
   <<Setting("CMAKE_BUILD_TYPE", JsStr("Custom")), Setting("Z", JsOther)>>}

\* `settings` of a variant
VariantSettingsChoices ==
  {<<>>,
   <<Setting("X", JsNum("2")), Setting("Y", JsStr("3"))>>,
   <<Setting("BUILD_SHARED_LIBS", JsStr("ON")), Setting("X", JsNum("2")),
     Setting("X", JsNum("4"))>>}

\* the options setVariantOptions is given; has_settings tells whether
\* `settings` is set
VariantOptions ==
  [buildType : {Undefined, "", "Release"},
   has_settings : BOOLEAN,
   settings : VariantSettingsChoices,
   linkage : {Undefined, "static", "shared"}]

NoConfigure ==
  [called |-> FALSE, settings |-> <<>>, variant |-> <<>>, linkage |-> Null,
   generator |-> Null, buildType |-> "", flags |-> <<>>]

\* no setVariantOptions call in the last step
NoVariantCall ==
  [called |-> FALSE,
   opts |-> [buildType |-> Undefined, has_settings |-> FALSE, settings |-> <<>>,
             linkage |-> Undefined]]

\* a setVariantOptions that takes every build type it is given
BuildTypeAfter_Always(prev, buildType) == buildType

\* opts.buildType || this._variantBuildType (driver.ts:305)
BuildTypeAfter(prev, buildType) == IF Truthy(buildType) THEN buildType ELSE prev

\* setVariantOptions(opts) (driver.ts:303-308)
setVariantOptions(opts) ==
  /\ lastVariant' = [called |-> TRUE, opts |-> opts]
  /\ variantBuildType' = BuildTypeAfter(variantBuildType, opts.buildType)
  /\ variantConfigureSettings' =
       IF opts.has_settings THEN opts.settings ELSE variantConfigureSettings
  /\ variantLinkage' = IF Truthy(opts.linkage) THEN opts.linkage ELSE Null
  /\ UNCHANGED <<configureSettings, generatorName, lastConfigure>>

\* a configure succeeds with the generator gen: generatorName is gen from
\* then on
Configured(gen) ==
  /\ generatorName' = gen
  /\ lastVariant' = NoVariantCall
  /\ UNCHANGED <<configureSettings, variantBuildType, variantConfigureSettings,
                 variantLinkage, lastConfigure>>

\* _prepareConfigure() is called (driver.ts:532-562)
PrepareConfigure ==
  /\ lastConfigure' =
       [called |-> TRUE, settings |-> configureSettings,
        variant |-> variantConfigureSettings, linkage |-> variantLinkage,
        generator |-> generatorName, buildType |-> variantBuildType,
        flags |-> _prepareConfigure(configureSettings, variantConfigureSettings,
                                    variantLinkage, generatorName, variantBuildType)]
  /\ lastVariant' = NoVariantCall
  /\ UNCHANGED <<configureSettings, variantBuildType, variantConfigureSettings,
                 variantLinkage, generatorName>>

\* a driver right after construction, under the settings of S
ConfInit(S) ==
  /\ configureSettings \in S
  /\ variantBuildType = "Debug"
  /\ variantConfigureSettings = <<>>
  /\ variantLinkage = Null
  /\ generatorName = Null
  /\ lastConfigure = NoConfigure
  /\ lastVariant = NoVariantCall

(***************************************************************************)
(* CMakeDriver: the CMake cache (driver.ts:154-165, 478-479, 507-526)      *)
(***************************************************************************)
VARIABLES
  cacheFile,     \* the file at cachePath
  cmakeCache,    \* CMakeDriver._cmakeCache
  cachePc,       \* where _init is: "new", "loading" the cache, "ready"
                 \* (returned, the watcher subscribed), "threw"
  cacheReloads,  \* _reloadCMakeCache calls in flight
  fired,         \* what the last finished reload fired on
                 \* _projectNameChangedEmitter
  cacheRollbar   \* what the last finished reload made rollbar.invokeAsync
                 \* report

cacheVars == <<cacheFile, cmakeCache, cachePc, cacheReloads, fired, cacheRollbar>>

\* _reloadCMakeCache calls in flight on one driver
MaxCacheReloads == 2

\* no file at cachePath
NoCacheFile == [exists |-> FALSE, entries |-> {}, malformed |-> FALSE]

\* a CMakeCache.txt with the entries e, a set of <<key, value>>
CacheFileOf(e) == [exists |-> TRUE, entries |-> e, malformed |-> FALSE]

\* a CMakeCache.txt with a project name entry followed by a line that is no
\* cache entry
MalformedCacheFile ==
  [exists |-> TRUE, entries |-> {<<"CMAKE_PROJECT_NAME", "Part">>}, malformed |-> TRUE]

\* what CMakeCache.txt holds in the model
CacheFileChoices ==
  {CacheFileOf({<<"CMAKE_GENERATOR", "Ninja">>}),
   CacheFileOf({<<"CMAKE_PROJECT_NAME", "Foo">>}),
   CacheFileOf({<<"CMAKE_PROJECT_NAME", "Foo">>, <<"CMAKE_GENERATOR", "Ninja">>}),
   CacheFileOf({<<"CMAKE_PROJECT_NAME", "Bar">>})}

\* _cmakeCache = null
NoCache == [loaded |-> FALSE, entries |-> {}]

\* CMakeCache.fromPath(path) rejects
Rejected == [loaded |-> FALSE, entries |-> {}, rejected |-> TRUE]

\* CMakeCache.fromPath(path) of a file: the store of its entries, a rejection
\* for a malformed file
FromPath(file) ==
  IF file.malformed THEN Rejected ELSE [loaded |-> TRUE, entries |-> file.entries]

\* cache.get(key), as the value of the entry, Undefined without entry
CacheGet(cache, key) ==
  IF \E e \in cache.entries : e[1] = key
    THEN (CHOOSE e \in cache.entries : e[1] = key)[2]
    ELSE Undefined

\* the getter projectName of a driver whose _cmakeCache is cache
\* (driver.ts:160-166)
projectName(cache) ==
  IF ~cache.loaded THEN Null
  ELSE IF CacheGet(cache, "CMAKE_PROJECT_NAME") # Undefined
    THEN CacheGet(cache, "CMAKE_PROJECT_NAME")
    ELSE Null

\* a new _reloadCMakeCache call, at its await of CMakeCache.fromPath
NewCacheReload == [pc |-> "reading", new_cache |-> NoCache]

\* an _init that never loads the cache
InitLoadsCache_Never(exists) == FALSE

\* whether _init awaits _reloadCMakeCache before it subscribes
\* (driver.ts:509-511)
InitLoadsCache(exists) == exists

\* _init() up to its first await beyond fs.exists (driver.ts:507-516)
CacheInitStart ==
  /\ cachePc = "new"
  /\ IF InitLoadsCache(cacheFile.exists)
       THEN /\ cachePc' = "loading"
            /\ cacheReloads' = Append(cacheReloads, NewCacheReload)
       ELSE /\ cachePc' = "ready"
            /\ cacheReloads' = cacheReloads
  /\ UNCHANGED <<cacheFile, cmakeCache, fired, cacheRollbar>>

\* CMake writes the cache file; the watcher, once subscribed, starts a reload
\* (driver.ts:512-515)
CacheFileChanged(f) ==
  /\ cacheFile' = f
  /\ IF cachePc = "ready"
       THEN /\ Len(cacheReloads) < MaxCacheReloads
            /\ cacheReloads' = Append(cacheReloads, NewCacheReload)
       ELSE cacheReloads' = cacheReloads
  /\ UNCHANGED <<cmakeCache, cachePc, fired, cacheRollbar>>

\* CMakeCache.fromPath of reload i reads the file
CacheReloadRead(i) ==
  /\ i \in 1..Len(cacheReloads)
  /\ cacheReloads[i].pc = "reading"
  /\ cacheReloads' = [cacheReloads EXCEPT ![i] = [pc |-> "read",
                                                 new_cache |-> FromPath(cacheFile)]]
  /\ UNCHANGED <<cacheFile, cmakeCache, cachePc, fired, cacheRollbar>>

\* the list of reloads without reload i
ReloadsWithout(i) ==
  [j \in 1..(Len(cacheReloads) - 1) |->
     IF j < i THEN cacheReloads[j] ELSE cacheReloads[j + 1]]

\* the await of CMakeCache.fromPath in reload i throws (driver.ts:520): the
\* reload that _init awaits makes _init throw before it subscribes
\* (driver.ts:509-512), a reload of the watcher rejects into
\* rollbar.invokeAsync (driver.ts:514)
CacheReloadThrows(i) ==
  /\ i \in 1..Len(cacheReloads)
  /\ cacheReloads[i].pc = "read"
  /\ cacheReloads[i].new_cache = Rejected
  /\ cacheReloads' = ReloadsWithout(i)
  /\ cachePc' = IF cachePc = "loading" THEN "threw" ELSE cachePc
  /\ cacheRollbar' = IF cachePc = "loading" THEN <<>> ELSE <<"Reloading CMake Cache">>
  /\ fired' = <<>>
  /\ UNCHANGED <<cacheFile, cmakeCache>>

\* reload i goes on after its await: the cache is replaced and the project
\* name, if there is one, is fired (driver.ts:521-525); the reload of _init
\* lets _init subscribe to the watcher
CacheReloadDone(i) ==
  /\ i \in 1..Len(cacheReloads)
  /\ cacheReloads[i].pc = "read"
  /\ cacheReloads[i].new_cache # Rejected
  /\ cmakeCache' = cacheReloads[i].new_cache
  /\ fired' = IF Truthy(projectName(cacheReloads[i].new_cache))
                    /\ projectName(cacheReloads[i].new_cache) # Null
                THEN <<projectName(cacheReloads[i].new_cache)>>
                ELSE <<>>
  /\ cacheReloads' = ReloadsWithout(i)
  /\ cachePc' = IF cachePc = "loading" THEN "ready" ELSE cachePc
  /\ cacheRollbar' = <<>>
  /\ UNCHANGED cacheFile

\* a driver right after construction, the cache file being one of F
CacheInit(F) ==
  /\ cacheFile \in F
  /\ cmakeCache = NoCache
  /\ cachePc = "new"
  /\ cacheReloads = <<>>
  /\ fired = <<>>
  /\ cacheRollbar = <<>>

(***************************************************************************)
(* CMakeDriver: the pre-configure gate (driver.ts:310-344, 416-471)        *)
(***************************************************************************)
VARIABLES
  isBusy,          \* CMakeDriver._isBusy
  sourceDir,       \* what the getter sourceDir gives
  saveBeforeBuild, \* config.saveBeforeBuild
  configures,      \* configure operations between their call of
                   \* _beforeConfigure and their end
  lastBefore       \* what the _beforeConfigure call that returned in the last
                   \* step has returned

gateVars == <<isBusy, sourceDir, saveBeforeBuild, configures, lastBefore>>

\* configure operations at a time on one driver
MaxConfigures == 3

\* the values of the getter sourceDir
SourceDirs == {"", "/src"}

\* a configure operation at its call of _beforeConfigure: where it is, and
\* what it has been answered so far ("none": not asked)
NewConfigure == [pc |-> "exists", busy |-> FALSE, exists |-> "none",
                 save_good |-> "none", chosen |-> "none",
                 do_quickstart |-> "none"]

\* the operation that enters _beforeConfigure now: this._isBusy as it finds it
EnteringConfigure == [NewConfigure EXCEPT !.busy = isBusy]

\* an answer, as kept in an operation
Answer(b) == IF b THEN "yes" ELSE "no"

\* no _beforeConfigure call has returned in the last step
NoReturn ==
  [returned |-> FALSE, ret |-> FALSE, why |-> "none", sourceDir |-> "",
   op |-> NewConfigure]

\* the _beforeConfigure call of operation op has returned ret
Returned(ret, why, op) ==
  [returned |-> TRUE, ret |-> ret, why |-> why, sourceDir |-> sourceDir,
   op |-> op]

\* the operations without operation i
ConfiguresWithout(i) ==
  [j \in 1..(Len(configures) - 1) |->
     IF j < i THEN configures[j] ELSE configures[j + 1]]

\* _beforeConfigure of operation i returns false, op being what it was
\* answered
RefuseGate(i, why, op) ==
  /\ configures' = ConfiguresWithout(i)
  /\ lastBefore' = Returned(FALSE, why, op)
  /\ UNCHANGED isBusy

\* _beforeConfigure of operation i returns true: the driver that called it
\* goes on to configure, and is busy from then on
PassGate(i, op) ==
  /\ configures' = [configures EXCEPT ![i] = [op EXCEPT !.pc = "configuring"]]
  /\ lastBefore' = Returned(TRUE, "ok", op)
  /\ isBusy' = TRUE

\* a 'continue anyway' that takes every answer for a yes
ContinueAnyway_Always(chosen) == TRUE

\* chosen !== undefined && (chosen.title === 'Yes') (driver.ts:458)
ContinueAnyway(chosen) == chosen # Undefined /\ chosen = "Yes"

\* a driver calls _beforeConfigure, which runs up to its await of fs.exists
\* (driver.ts:416-431)
BeforeConfigure ==
  /\ Len(configures) < MaxConfigures
  /\ IF isBusy
       THEN /\ lastBefore' = Returned(FALSE, "busy", EnteringConfigure)
            /\ configures' = configures
       ELSE IF ~Truthy(sourceDir)
         THEN /\ lastBefore' = Returned(FALSE, "no-source-dir", EnteringConfigure)
              /\ configures' = configures
         ELSE /\ lastBefore' = NoReturn
              /\ configures' = Append(configures, EnteringConfigure)
  /\ UNCHANGED <<isBusy, sourceDir, saveBeforeBuild>>

\* fs.exists(cmake_list) answers operation i (driver.ts:431-452)
BeforeExists(i, exists) ==
  /\ i \in 1..Len(configures)
  /\ configures[i].pc = "exists"
  /\ LET op == [configures[i] EXCEPT !.exists = Answer(exists)] IN
       IF ~exists
         THEN /\ configures' = [configures EXCEPT ![i] = [op EXCEPT !.pc = "quickstart"]]
              /\ lastBefore' = NoReturn
              /\ UNCHANGED isBusy
         ELSE IF saveBeforeBuild
           THEN /\ configures' = [configures EXCEPT ![i] = [op EXCEPT !.pc = "saving"]]
                /\ lastBefore' = NoReturn
                /\ UNCHANGED isBusy
           ELSE PassGate(i, op)
  /\ UNCHANGED <<sourceDir, saveBeforeBuild>>

\* the user answers the 'You do not have a CMakeLists.txt' message of
\* operation i (driver.ts:433-437)
BeforeQuickstart(i, do_quickstart) ==
  /\ i \in 1..Len(configures)
  /\ configures[i].pc = "quickstart"
  /\ RefuseGate(i, IF Truthy(do_quickstart) THEN "quickstart" ELSE "no-list-file",
                [configures[i] EXCEPT !.do_quickstart = do_quickstart])
  /\ UNCHANGED <<sourceDir, saveBeforeBuild>>

\* vscode.workspace.saveAll answers operation i (driver.ts:444-446)
BeforeSaved(i, save_good) ==
  /\ i \in 1..Len(configures)
  /\ configures[i].pc = "saving"
  /\ LET op == [configures[i] EXCEPT !.save_good = Answer(save_good)] IN
       IF save_good
         THEN PassGate(i, op)
         ELSE /\ configures' = [configures EXCEPT ![i] = [op EXCEPT !.pc = "asking"]]
              /\ lastBefore' = NoReturn
              /\ UNCHANGED isBusy
  /\ UNCHANGED <<sourceDir, saveBeforeBuild>>

\* the user answers 'Not all open documents were saved' of operation i
\* (driver.ts:447-458)
BeforeAsked(i, chosen) ==
  /\ i \in 1..Len(configures)
  /\ configures[i].pc = "asking"
  /\ LET op == [configures[i] EXCEPT !.chosen = chosen] IN
       IF ContinueAnyway(chosen)
         THEN PassGate(i, op)
         ELSE RefuseGate(i, "not-saved", op)
  /\ UNCHANGED <<sourceDir, saveBeforeBuild>>

\* the configure of operation i ends: the driver is no longer busy
ConfigureEnds(i) ==
  /\ i \in 1..Len(configures)
  /\ configures[i].pc = "configuring"
  /\ configures' = ConfiguresWithout(i)
  /\ isBusy' = FALSE
  /\ lastBefore' = NoReturn
  /\ UNCHANGED <<sourceDir, saveBeforeBuild>>

\* a driver right after construction
GateInit ==
  /\ isBusy = FALSE
  /\ sourceDir \in SourceDirs
  /\ saveBeforeBuild \in BOOLEAN
  /\ configures = <<>>
  /\ lastBefore = NoReturn

\* a driver with a source directory, outside the gate
GateIdleInit ==
  /\ isBusy = FALSE
  /\ sourceDir = "/src"
  /\ saveBeforeBuild = FALSE
  /\ configures = <<>>
  /\ lastBefore = NoReturn

KitInit ==
  /\ baseKit = NullKit
  /\ kitEnv = NoEnv
  /\ envPending = <<>>
  /\ lastClean = [called |-> FALSE, prev |-> NullKit, kit |-> NullKit, ret |-> FALSE]
  /\ lastResolve = NoResolve
  /\ lastExec = NoExec

DriverInit == KitInit /\ ConfInit({<<>>}) /\ CacheInit({NoCacheFile}) /\ GateIdleInit

\* a _setBaseKit that keeps the map of the previous kit
NewEnvMap_Keep(env) == env

\* this._kitEnvironmentVariables = new Map() (driver.ts:125)
NewEnvMap(env) == NoEnv

\* A kit change: the clean check against the previous kit, then _setBaseKit(k)
\* up to its await of getVSKitEnvironment.
DriverSetKit(k) ==
  /\ lastClean' = [called |-> TRUE, prev |-> baseKit, kit |-> k,
                   ret |-> _kitChangeNeedsClean(baseKit, k)]
  /\ baseKit' = BaseKitAfter(k)
  /\ kitEnv' = NewEnvMap(kitEnv)
  /\ lastResolve' = NoResolve
  /\ lastExec' = NoExec
  /\ IF k.type = "vsKit"
       THEN /\ Len(envPending) < MaxPending
            /\ envPending' = Append(envPending, k)
       ELSE envPending' = envPending

\* getVSKitEnvironment answers the i-th suspended _setBaseKit call, with the
\* environment (ok) or with null.
DriverEnvResolved(i, ok) ==
  /\ i \in 1..Len(envPending)
  /\ kitEnv' = IF ok THEN VSEnvOf(envPending[i]) ELSE kitEnv
  /\ lastResolve' = [done |-> TRUE, kit |-> envPending[i], ok |-> ok]
  /\ envPending' = [j \in 1..(Len(envPending) - 1) |->
                      IF j < i THEN envPending[j] ELSE envPending[j + 1]]
  /\ lastExec' = NoExec
  /\ UNCHANGED <<baseKit, lastClean>>

\* executeCommand(command, args, consumer, options) (driver.ts:266-276): the
\* subprocess gets the variables of the kit as they are now, with
\* options.environment laid over them
executeCommand(option_env) ==
  /\ lastExec' = [called |-> TRUE, baseKit |-> baseKit, pending |-> Len(envPending),
                  environment |->
                    IF Truthy(option_env) THEN ExecEnv(kitEnv, option_env)
                    ELSE ExecEnv(kitEnv, Undefined)]
  /\ lastResolve' = NoResolve
  /\ UNCHANGED <<baseKit, kitEnv, envPending, lastClean>>

(***************************************************************************)
(* Kit names and the kits file                                             *)
(***************************************************************************)
UnspecName == "__unspec__"

\* {name: '__unspec__'} (part_000:423, 745)
UnspecKit == Kit(UnspecName, NoType, EmptyObj, Undefined, Undefined, Undefined, FALSE)

\* the UTF-16 code units of the kit names the model uses
CodeUnits(n) ==
  CASE n = "A" -> <<65>>
    [] n = "B" -> <<66>>
    [] n = "C" -> <<67>>
    [] n = "D" -> <<68>>
    [] n = "L" -> <<76>>
    [] n = "a" -> <<97>>
    [] n = UnspecName -> <<95, 95, 117, 110, 115, 112, 101, 99, 95, 95>>
    [] OTHER -> <<>>

\* s < t of two strings, by code units
RECURSIVE UnitsLess(_, _)
UnitsLess(s, t) ==
  IF t = <<>> THEN FALSE
  ELSE IF s = <<>> THEN TRUE
  ELSE IF Head(s) # Head(t) THEN Head(s) < Head(t)
  ELSE UnitsLess(Tail(s), Tail(t))

NameLess(a, b) == UnitsLess(CodeUnits(a), CodeUnits(b))

\* the comparator handed to sort (part_000:542-550)
KitCompare(a, b) ==
  IF a.name = b.name THEN 0 ELSE IF NameLess(a.name, b.name) THEN -1 ELSE 1

IndexPerms(n) == {f \in [1..n -> 1..n] : \A i, j \in 1..n : f[i] = f[j] => i = j}

\* what Array.prototype.sort may leave in the array: a permutation of it in
\* which no element is followed by one the comparator puts before it
SortResults(seq) ==
  {r \in {[i \in 1..Len(seq) |-> seq[f[i]]] : f \in IndexPerms(Len(seq))} :
     \A i, j \in 1..Len(seq) : i < j => KitCompare(r[i], r[j]) <= 0}

\* kits.filter(k => k.name !== '__unspec__') (part_000:540)
StrippedKits(kits) == SelectSeq(kits, LAMBDA k : k.name # UnspecName)

KitFields ==
  {"name", "type", "compilers", "toolchainFile", "visualStudio",
   "visualStudioArchitecture", "keep"}

\* JSON.stringify of one kit: the properties that are set; a property that
\* is undefined is left out
StringifyKit(k) ==
  {<<f, k[f]>> : f \in {g \in KitFields :
      CASE g = "keep" -> k.keep
        [] g = "compilers" -> k.type = "compilerKit"
        [] g = "type" -> k.type # NoType
        [] OTHER -> k[g] # Undefined}}

\* JSON.stringify(sorted_kits, null, 2) (part_000:557)
Stringify(kits) == [i \in 1..Len(kits) |-> StringifyKit(kits[i])]

Prop(obj, f, dflt) == IF \E p \in obj : p[1] = f THEN (CHOOSE p \in obj : p[1] = f)[2] ELSE dflt

ParseKit(obj) ==
  Kit(Prop(obj, "name", Undefined), Prop(obj, "type", NoType),
      Prop(obj, "compilers", EmptyObj), Prop(obj, "toolchainFile", Undefined),
      Prop(obj, "visualStudio", Undefined),
      Prop(obj, "visualStudioArchitecture", Undefined), Prop(obj, "keep", FALSE))

\* a kits file on disk: whether it exists, and its text
NoFile == [exists |-> FALSE, text |-> <<>>]

FileOf(text) == [exists |-> TRUE, text |-> text]

\* readKitsFile(path) of a file; a missing file gives []
ReadKitsFile(file) ==
  IF ~file.exists THEN <<>> ELSE [i \in 1..Len(file.text) |-> ParseKit(file.text[i])]

(***************************************************************************)
(* ExtensionManager (part_000)                                             *)
(*                                                                         *)
(* A step of the model is what runs between two suspensions: an await of   *)
(* file or process I/O (readKitsFile, writeFile, createForDirectory,       *)
(* asyncDispose, scanForKits) or of an answer of the user.  An await of a  *)
(* call that does not suspend on I/O is run through in the same step.      *)
(***************************************************************************)
Roots == {"w1", "w2"}

NoRoot == "null"

\* the kits the files and the scan hold in the model
KitA == CompilerKit("A", [l \in {"C"} |-> "/usr/bin/gcc"])

KitALocal == CompilerKit("A", [l \in {"C"} |-> "/usr/bin/clang"])

KitB == CompilerKit("B", [l \in {"C"} |-> "/opt/gone/cc"])

KitKept == [KitB EXCEPT !.keep = TRUE]

KitC == ToolchainKit("C", "a.cmake")

KitLower == VSKit("a", "VS15", "x86")

\* the kits of the lists handed to _writeUserKitsFile on its own
WriteKits == {KitA, KitALocal, KitB, KitKept, KitC, KitLower, UnspecKit}

\* the longest list handed to _writeUserKitsFile on its own
MaxWriteLen == 3

WriteLists == UNION {[1..n -> WriteKits] : n \in 0..MaxWriteLen}

\* compiler paths that name no file
MissingPaths == {"/opt/gone/cc"}

UserFileChoices == {NoFile, FileOf(Stringify(<<KitA>>))}

\* a user kits file with a kit whose compiler is gone
OutdatedUserFile == FileOf(Stringify(<<KitA, KitB>>))

KitD == CompilerKit("D", [l \in {"C"} |-> "/opt/gone/cc"])

\* a user kits file with two kits whose compiler is gone
TwiceOutdatedUserFile == FileOf(Stringify(<<KitB, KitD>>))

\* a kit of a folder's kits file whose compiler is gone
KitGoneLocal == CompilerKit("L", [l \in {"C"} |-> "/opt/gone/cc"])

\* the kits files of the folders with an outdated kit in that of w1
OutdatedWsFiles ==
  [r \in Roots |-> IF r = "w1" THEN FileOf(Stringify(<<KitGoneLocal>>)) ELSE NoFile]

WsFileChoices(r) == IF r = "w1" THEN {NoFile, FileOf(Stringify(<<KitALocal>>))} ELSE {NoFile}

\* what the discovery of scanForKits (kit.ts) may return
ScanChoices == {<<>>, <<KitA>>}

\* kit B as a discovery finds it
KitBFound == CompilerKit("B", [l \in {"C"} |-> "/usr/bin/gcc"])

\* a user kits file with a kit marked to be kept
KeptUserFile == FileOf(Stringify(<<KitKept, KitC>>))

\* the kits files of the folders with a kit named A in that of w1
LocalWsFiles ==
  [r \in Roots |-> IF r = "w1" THEN FileOf(Stringify(<<KitALocal>>)) ELSE NoFile]

\* what the discovery returns where the merge of a scan is looked at
MergeChoices == {<<>>, <<KitBFound>>, <<KitA, KitBFound, KitLower>>}

\* workspace-folder tasks submitted and not over
MaxTasks == 2

\* CMakeTools instances ever created
MaxInsts == 2

\* kit reloads started by a watcher or an editor save and not yet finished
MaxRereads == 1

\* commands in flight
MaxCmds == 1


\* commands in flight where commands race
MaxRacing == 2

\* prune checks and prompts in flight
MaxPrunes == 2

\* items of a quick pick the user may choose from
MaxItems == 4

\* open "failed to write" prompts
MaxRetryPrompts == 1

VARIABLES
  insts,        \* the CMakeTools instances ever created: root, kit, state
  cmtInstances, \* _cmakeToolsInstances: root -> instance (0: no entry)
  activeWs,     \* _activeWorkspaceFolder
  userKits,     \* _userKits
  wsKits,       \* _wsKits
  kitsWatcher,  \* _kitsWatcher: the folder whose kits file it covers,
                \* whether onAnyEvent is subscribed, and how many of the
                \* watchers made so far are not disposed
  statusSubs,   \* the instance the status bar subscriptions are attached to
  userFile,     \* the file at USER_KITS_FILEPATH
  wsFile,       \* the file at kitsPathForWorkspaceFolder(root)
  tasks,        \* the tasks handed to _wsModStrand, in submission order
  rereads,      \* _rereadKits calls started by events
  cmds,         \* commands in flight
  prunes,       \* prune promises of _startPruneOutdatedKitsAsync
  retryPrompts, \* open prompts of a failed _writeUserKitsFile
  ended,        \* the call that has just returned and how, until its caller
                \* has taken the result
  rollbar       \* the errors the last step reported to rollbar, until seen

orchVars ==
  <<insts, cmtInstances, activeWs, userKits, wsKits, kitsWatcher, statusSubs,
    userFile, wsFile, tasks, rereads, cmds, prunes, retryPrompts, ended, rollbar>>

VARIABLES
  lastWrite     \* the last _writeUserKitsFile call made on its own: the list it
                \* was given, the caller's array as the call left it, and
                \* sorted_kits

writeVars == <<lastWrite>>

\* what the steps of the orchestrator leave alone
VARIABLES
  shutdown      \* ExtensionManager.asyncDispose: where the call is, and the
                \* instance whose asyncDispose its loop over the map awaits

shutVars == <<shutdown>>

\* asyncDispose has not been called
NoShutdown == [pc |-> "none", cmt |-> 0]

restVars == <<driverVars, writeVars, confVars, cacheVars, gateVars, shutVars>>

vars == <<driverVars, orchVars, writeVars, confVars, cacheVars, gateVars, shutVars>>

\* a sequence without its i-th element
Without(seq, i) ==
  [j \in 1..(Len(seq) - 1) |-> IF j < i THEN seq[j] ELSE seq[j + 1]]

\* a call returns: kind names the call, cmt the instance it returned or was
\* given, how the answer of the user or the branch taken, result the value
Ended(kind, cmt, how, result) ==
  [kind |-> kind, cmt |-> cmt, how |-> how, result |-> result]

NothingEnded == Ended("none", 0, "none", "none")

CMakeToolsFor_None(map, ws) == 0

\* _cmakeToolsForWorkspaceFolder(ws) (0 for null)
CMakeToolsFor(map, ws) == map[ws]

\* the getter _activeCMakeTools (0 for null)
ActiveCMakeTools(act, map) == IF act = NoRoot THEN 0 ELSE CMakeToolsFor(map, act)

\* what the getter _activeCMakeTools reports when read
GetterReport(act, map) ==
  IF act # NoRoot /\ CMakeToolsFor(map, act) = 0 THEN {"no-active-impossible"} ELSE {}

\* the getter _workspaceKitsPath: the folder whose kits file it names
WorkspaceKitsPath(act) == act

\* the getter _allKits
AllKits(u, w) == u \o w

\* Array.prototype.find by name: the first match, or NullKit for undefined
FindKit(kits, name) ==
  IF \E i \in 1..Len(kits) : kits[i].name = name
    THEN kits[CHOOSE i \in 1..Len(kits) :
                /\ kits[i].name = name
                /\ \A j \in 1..(i - 1) : kits[j].name # name]
    ELSE NullKit

\* CMakeTools.setKit(k) on instance id: a kit is handed to the driver
\* (_setBaseKit); null leaves the driver's kit as it is
InstsSetKit(I, id, k) ==
  IF id = 0 \/ k.type = "null" THEN I
  ELSE [I EXCEPT ![id].kit = BaseKitAfter(k)]

\* _setCurrentKit(k)
InstsSetCurrentKit(I, act, map, k) == InstsSetKit(I, ActiveCMakeTools(act, map), k)

\* the instances after _setKnownKits({user, workspace})
InstsSetKnownKits(I, act, map, user, workspace) ==
  LET cmt == ActiveCMakeTools(act, map) IN
    IF cmt # 0 /\ I[cmt].kit.type # "null"
      THEN InstsSetCurrentKit(I, act, map,
                              FindKit(AllKits(user, workspace), I[cmt].kit.name))
      ELSE I

\* `kit.compilers` is set
HasCompilers(k) == k.type = "compilerKit"

\* the kits _startPruneOutdatedKitsAsync starts an existence check for
\* (part_000:611-619)
\* a promise whose check finds every compiler returns at once (part_000:638-641);
\* only the promises that will find a missing compiler are kept
PruneCandidates(kits) ==
  SelectSeq(kits, LAMBDA k : /\ ~k.keep
                             /\ HasCompilers(k)
                             /\ \E lang \in DOMAIN k.compilers :
                                   k.compilers[lang] \in MissingPaths)

\* the prune promises after _startPruneOutdatedKitsAsync() over kits
PrunesStarted(P, kits) ==
  P \o [i \in 1..Len(PruneCandidates(kits)) |->
          [kit |-> PruneCandidates(kits)[i], pc |-> "checking", chosen |-> "none",
           sorted |-> <<>>]]

\* a _resetKitsWatcher that does not dispose
WatchersAfterDispose_Leak(n) == n

\* this._kitsWatcher.dispose() (part_000:350): the watchers left alive, of n
WatchersAfterDispose(n) == n - 1

\* _resetKitsWatcher(): the old watcher w is disposed, then a
\* new MultiWatcher(...) is made and onAnyEvent subscribed (part_000:348-360)
NewKitsWatcher(w, act) ==
  [ws |-> WorkspaceKitsPath(act), sub |-> TRUE,
   live |-> WatchersAfterDispose(w.live) + 1]

\* an error branch that lets every root through
NoInstanceReady_Never(map, ws) == FALSE

\* ws && !this._cmakeToolsInstances.has(ws.name) (part_000:290)
NoInstanceReady(map, ws) == ws # NoRoot /\ map[ws] = 0

\* a removal of an unknown root that reports nothing
RemoveReport_None == {}

\* rollbar.error('Workspace folder removed, but not associated with an
\* extension instance') (part_000:263)
RemoveReport == {"remove-unknown"}

\* Strand.execute: a task starts when every task submitted before it is
\* over; `tasks` holds the tasks that are not over, oldest first
StrandTurn(i) == i = 1

InStrand_OnlyAdd(op) == op = "add"

\* whether the body of the operation is handed to _wsModStrand.execute
\* (part_000:212, 259)
InStrand(op) == TRUE

TaskMayStart(i) ==
  /\ i \in 1..Len(tasks)
  /\ tasks[i].pc = "queued"
  /\ InStrand(tasks[i].op) => StrandTurn(i)

NewTask(op, ws) ==
  [op |-> op, ws |-> ws, pc |-> "queued", user |-> <<>>, path |-> NoRoot,
   inst |-> 0]

\* addWorkspaceFolder(ws) is called: its body is queued
addWorkspaceFolder(ws) ==
  /\ Len(tasks) < MaxTasks
  /\ tasks' = Append(tasks, NewTask("add", ws))
  /\ UNCHANGED <<insts, cmtInstances, activeWs, userKits, wsKits, kitsWatcher,
                 statusSubs, userFile, wsFile, rereads, cmds, prunes,
                 retryPrompts, ended, rollbar>>

\* _removeWorkspaceFolder(ws) is called: its body is queued
_removeWorkspaceFolder(ws) ==
  /\ Len(tasks) < MaxTasks
  /\ tasks' = Append(tasks, NewTask("remove", ws))
  /\ UNCHANGED <<insts, cmtInstances, activeWs, userKits, wsKits, kitsWatcher,
                 statusSubs, userFile, wsFile, rereads, cmds, prunes,
                 retryPrompts, ended, rollbar>>

\* the body of addWorkspaceFolder up to the await of createForDirectory
AddStart(i) ==
  /\ TaskMayStart(i)
  /\ tasks[i].op = "add"
  /\ LET current_cmt == CMakeToolsFor(cmtInstances, tasks[i].ws) IN
       IF current_cmt # 0
         THEN /\ rollbar' = {"double-loaded"}
              /\ tasks' = Without(tasks, i)
              /\ ended' = Ended("add", current_cmt, "double", "returned")
         ELSE /\ tasks' = [tasks EXCEPT ![i].pc = "creating"]
              /\ UNCHANGED <<rollbar, ended>>
  /\ UNCHANGED <<insts, cmtInstances, activeWs, userKits, wsKits, kitsWatcher,
                 statusSubs, userFile, wsFile, rereads, cmds, prunes,
                 retryPrompts>>

\* an addition that makes its folder the active one whatever is active
NothingActive_Always(act) == TRUE

\* this._activeWorkspaceFolder === null (part_000:224)
NothingActive(act) == act = NoRoot

\* createForDirectory settles: on success the instance is saved and, with no
\* folder active, _setActiveWorkspaceFolder(ws) runs up to its first read
AddCreated(i, ok) ==
  /\ i \in 1..Len(tasks)
  /\ tasks[i].pc = "creating"
  /\ IF ~ok
       THEN /\ tasks' = Without(tasks, i)
            /\ ended' = Ended("add", 0, "create-failed", "rejected")
            /\ UNCHANGED <<insts, cmtInstances, activeWs, kitsWatcher>>
       ELSE LET new_cmt == Len(insts) + 1 IN
         /\ Len(insts) < MaxInsts
         /\ insts' = Append(insts, [root |-> tasks[i].ws, kit |-> NullKit,
                                    state |-> "live"])
         /\ cmtInstances' = [cmtInstances EXCEPT ![tasks[i].ws] = new_cmt]
         /\ IF NothingActive(activeWs)
              THEN /\ activeWs' = tasks[i].ws
                   /\ kitsWatcher' = NewKitsWatcher(kitsWatcher, tasks[i].ws)
                   /\ tasks' = [tasks EXCEPT ![i].pc = "readUser", ![i].inst = new_cmt]
                   /\ ended' = ended
              ELSE /\ tasks' = Without(tasks, i)
                   /\ ended' = Ended("add", new_cmt, "created", "returned")
                   /\ UNCHANGED <<activeWs, kitsWatcher>>
  /\ UNCHANGED <<userKits, wsKits, statusSubs, userFile, wsFile, rereads, cmds,
                 prunes, retryPrompts, rollbar>>

\* CMakeTools.asyncDispose() is called on an instance: a call on an instance
\* that has been disposed of, or is being disposed of, is a second one
DisposeCalled(state) == IF state = "live" THEN "disposing" ELSE "twice"

\* a call of CMakeTools.asyncDispose() returns
DisposeReturned(state) == IF state = "disposing" THEN "disposed" ELSE state

\* a removal that never takes its folder for the active one
IsActiveInst_Never(inst, act, map) == FALSE

\* inst === this._activeCMakeTools (part_000:268)
IsActiveInst(inst, act, map) == inst = ActiveCMakeTools(act, map)

\* the body of _removeWorkspaceFolder up to its first await
RemoveStart(i) ==
  /\ TaskMayStart(i)
  /\ tasks[i].op = "remove"
  /\ LET inst == CMakeToolsFor(cmtInstances, tasks[i].ws) IN
       IF inst = 0
         THEN /\ rollbar' = RemoveReport
              /\ tasks' = Without(tasks, i)
              /\ ended' = Ended("remove", 0, "unknown", "returned")
              /\ UNCHANGED <<insts, cmtInstances, activeWs, kitsWatcher>>
         ELSE IF IsActiveInst(inst, activeWs, cmtInstances)
           THEN /\ activeWs' = NoRoot
                /\ kitsWatcher' = NewKitsWatcher(kitsWatcher, NoRoot)
                /\ tasks' = [tasks EXCEPT ![i].pc = "readUser", ![i].inst = inst]
                /\ rollbar' = GetterReport(activeWs, cmtInstances)
                /\ UNCHANGED <<insts, cmtInstances, ended>>
           ELSE /\ cmtInstances' = [cmtInstances EXCEPT ![tasks[i].ws] = 0]
                /\ insts' = [insts EXCEPT ![inst].state = DisposeCalled(@)]
                /\ tasks' = [tasks EXCEPT ![i].pc = "disposing", ![i].inst = inst]
                /\ rollbar' = GetterReport(activeWs, cmtInstances)
                /\ UNCHANGED <<activeWs, kitsWatcher, ended>>
  /\ UNCHANGED <<userKits, wsKits, statusSubs, userFile, wsFile, rereads, cmds,
                 prunes, retryPrompts>>

\* _setActiveWorkspaceFolder(ws) is called on its own, in the strand as its
\* callers are
_setActiveWorkspaceFolder(ws) ==
  /\ Len(tasks) < MaxTasks
  /\ tasks' = Append(tasks, NewTask("activate", ws))
  /\ UNCHANGED <<insts, cmtInstances, activeWs, userKits, wsKits, kitsWatcher,
                 statusSubs, userFile, wsFile, rereads, cmds, prunes,
                 retryPrompts, ended, rollbar>>

\* _setActiveWorkspaceFolder(ws) up to its await of _rereadKits
\* (part_000:285-299)
ActivateStart(i) ==
  /\ TaskMayStart(i)
  /\ tasks[i].op = "activate"
  /\ IF NoInstanceReady(cmtInstances, tasks[i].ws)
       THEN /\ rollbar' = {"no-instance-ready"}
            /\ tasks' = Without(tasks, i)
            /\ ended' = Ended("activate", 0, "no-instance", "returned")
            /\ UNCHANGED <<activeWs, kitsWatcher>>
       ELSE /\ activeWs' = tasks[i].ws
            /\ kitsWatcher' = NewKitsWatcher(kitsWatcher, tasks[i].ws)
            /\ tasks' = [tasks EXCEPT ![i].pc = "readUser"]
            /\ UNCHANGED <<rollbar, ended>>
  /\ UNCHANGED <<insts, cmtInstances, userKits, wsKits, statusSubs, userFile,
                 wsFile, rereads, cmds, prunes, retryPrompts>>

\* what follows `await this._rereadKits()` in _setActiveWorkspaceFolder and
\* after it in the task: _setupStatusBarSubs, then for a removal the delete
\* and the call of asyncDispose
TaskAfterReread(i, user, workspace) ==
  LET I1 == InstsSetKnownKits(insts, activeWs, cmtInstances, user, workspace) IN
  /\ userKits' = user
  /\ wsKits' = workspace
  /\ Len(PrunesStarted(prunes, user)) <= MaxPrunes
  /\ prunes' = PrunesStarted(prunes, user)
  /\ statusSubs' = ActiveCMakeTools(activeWs, cmtInstances)
  /\ rollbar' = GetterReport(activeWs, cmtInstances)
  /\ IF tasks[i].op = "add"
       THEN /\ tasks' = Without(tasks, i)
            /\ ended' = Ended("add", tasks[i].inst, "created", "returned")
            /\ insts' = I1
            /\ cmtInstances' = cmtInstances
       ELSE IF tasks[i].op = "activate"
       THEN /\ tasks' = Without(tasks, i)
            /\ ended' = Ended("activate", 0, "set", "returned")
            /\ insts' = I1
            /\ cmtInstances' = cmtInstances
       ELSE /\ tasks' = [tasks EXCEPT ![i].pc = "disposing", ![i].user = <<>>,
                                      ![i].path = NoRoot]
            /\ ended' = ended
            /\ insts' = [I1 EXCEPT ![tasks[i].inst].state = DisposeCalled(@)]
            /\ cmtInstances' = [cmtInstances EXCEPT ![tasks[i].ws] = 0]

\* readKitsFile(USER_KITS_FILEPATH) of the task's _rereadKits returns
TaskReadUser(i) ==
  /\ i \in 1..Len(tasks)
  /\ tasks[i].pc = "readUser"
  /\ LET user == ReadKitsFile(userFile) IN
       IF WorkspaceKitsPath(activeWs) # NoRoot
         THEN /\ tasks' = [tasks EXCEPT ![i].pc = "readWs", ![i].user = user,
                                        ![i].path = WorkspaceKitsPath(activeWs)]
              /\ UNCHANGED <<insts, cmtInstances, userKits, wsKits, statusSubs,
                             prunes, rollbar, ended>>
         ELSE TaskAfterReread(i, Append(user, UnspecKit), <<>>)
  /\ UNCHANGED <<activeWs, kitsWatcher, userFile, wsFile, rereads, cmds,
                 retryPrompts>>

\* readKitsFile(this._workspaceKitsPath) of the task's _rereadKits returns
TaskReadWs(i) ==
  /\ i \in 1..Len(tasks)
  /\ tasks[i].pc = "readWs"
  /\ TaskAfterReread(i, Append(tasks[i].user, UnspecKit),
                     ReadKitsFile(wsFile[tasks[i].path]))
  /\ UNCHANGED <<activeWs, kitsWatcher, userFile, wsFile, rereads, cmds,
                 retryPrompts>>

\* inst.asyncDispose() of a removal returns
TaskDisposed(i) ==
  /\ i \in 1..Len(tasks)
  /\ tasks[i].pc = "disposing"
  /\ insts' = [insts EXCEPT ![tasks[i].inst].state = DisposeReturned(@)]
  /\ tasks' = Without(tasks, i)
  /\ ended' = Ended("remove", tasks[i].inst, "removed", "returned")
  /\ UNCHANGED <<cmtInstances, activeWs, userKits, wsKits, kitsWatcher,
                 statusSubs, userFile, wsFile, rereads, cmds, prunes,
                 retryPrompts, rollbar>>

\* the entry the iterator of _cmakeToolsInstances.values() comes to after the
\* instance `last` (0: at its start; the result 0: at its end). The entries
\* of a Map are kept in the order they were set in, which is the order the
\* instances were created in, and the iterator meets the entries set and
\* misses the entries deleted while the loop is suspended.
NextEntry(map, last) ==
  LET later == {map[r] : r \in Roots} \cap {id \in 1..MaxInsts : id > last} IN
  IF later = {} THEN 0 ELSE CHOOSE id \in later : \A other \in later : id <= other

\* the loop of asyncDispose goes on after the instance `last`: it calls
\* asyncDispose on the next instance of the map and awaits it, or ends
DisposeLoop(I, last) ==
  LET cmt == NextEntry(cmtInstances, last) IN
  IF cmt = 0
    THEN /\ shutdown' = [pc |-> "done", cmt |-> 0]
         /\ insts' = I
    ELSE /\ shutdown' = [pc |-> "awaiting", cmt |-> cmt]
         /\ insts' = [I EXCEPT ![cmt].state = DisposeCalled(@)]

\* asyncDispose() up to its first await (part_000:194-201): the status bar
\* subscriptions and the watchers are disposed of, and the loop starts
asyncDispose ==
  /\ shutdown.pc = "none"
  /\ statusSubs' = 0
  /\ kitsWatcher' = [kitsWatcher EXCEPT !.sub = FALSE,
                                        !.live = WatchersAfterDispose(@)]
  /\ DisposeLoop(insts, 0)
  /\ UNCHANGED <<cmtInstances, activeWs, userKits, wsKits, userFile, wsFile,
                 tasks, rereads, cmds, prunes, retryPrompts, ended, rollbar>>

\* `await cmt.asyncDispose()` in the loop of asyncDispose returns
AsyncDisposeResumes ==
  /\ shutdown.pc = "awaiting"
  /\ DisposeLoop([insts EXCEPT ![shutdown.cmt].state = DisposeReturned(@)],
                 shutdown.cmt)
  /\ UNCHANGED <<cmtInstances, activeWs, userKits, wsKits, kitsWatcher,
                 statusSubs, userFile, wsFile, tasks, rereads, cmds, prunes,
                 retryPrompts, ended, rollbar>>

\* the caller of the call that has just returned takes its result, and the
\* reports of the last step are taken off rollbar
TakeResult ==
  /\ ended # NothingEnded \/ rollbar # {}
  /\ ended' = NothingEnded
  /\ rollbar' = {}
  /\ UNCHANGED <<insts, cmtInstances, activeWs, userKits, wsKits, kitsWatcher,
                 statusSubs, userFile, wsFile, tasks, rereads, cmds, prunes,
                 retryPrompts>>

\* what a workspace folders event does, in order: the removals, then the
\* additions (part_000:92-101)
EventCalls(removed, added) ==
  [i \in 1..Len(removed) |-> [op |-> "remove", ws |-> removed[i]]]
    \o [i \in 1..Len(added) |-> [op |-> "add", ws |-> added[i]]]

\* _onWorkspaceFoldersChanged suspended at the await of one of its calls,
\* with the calls it has still to make
FoldersHandler(calls) ==
  [kind |-> "foldersChanged", pc |-> "awaiting", cmt |-> 0, items |-> calls,
   old |-> <<>>, sorted |-> <<>>]

\* whether the await of a call in _onWorkspaceFoldersChanged throws, which
\* ends the handler (part_000:95, 99)
HandlerStops(result) == result = "rejected"

\* onDidChangeWorkspaceFolders fires: _onWorkspaceFoldersChanged(e) runs up to
\* the await of its first call (part_000:80-81, 92-101)
FoldersChanged(removed, added) ==
  /\ cmds = <<>>
  /\ tasks = <<>>
  /\ EventCalls(removed, added) # <<>>
  /\ tasks' = <<NewTask(Head(EventCalls(removed, added)).op,
                        Head(EventCalls(removed, added)).ws)>>
  /\ cmds' = <<FoldersHandler(Tail(EventCalls(removed, added)))>>
  /\ UNCHANGED <<insts, cmtInstances, activeWs, userKits, wsKits, kitsWatcher,
                 statusSubs, userFile, wsFile, rereads, prunes, retryPrompts,
                 ended, rollbar>>

\* the call that _onWorkspaceFoldersChanged awaits has ended: the handler
\* makes its next call, or returns, or throws into rollbar.invokeAsync
FoldersHandlerResumes ==
  /\ Len(cmds) = 1
  /\ cmds[1].kind = "foldersChanged"
  /\ ended.kind \in {"add", "remove"}
  /\ IF HandlerStops(ended.result)
       THEN /\ cmds' = <<>>
            /\ tasks' = tasks
            /\ rollbar' = {"update-workspace-folders"}
            /\ ended' = Ended("foldersChanged", 0, "threw", "reported")
       ELSE IF cmds[1].items = <<>>
         THEN /\ cmds' = <<>>
              /\ tasks' = tasks
              /\ rollbar' = {}
              /\ ended' = Ended("foldersChanged", 0, "done", "returned")
         ELSE /\ cmds' = <<FoldersHandler(Tail(cmds[1].items))>>
              /\ tasks' = Append(tasks, NewTask(Head(cmds[1].items).op,
                                                Head(cmds[1].items).ws))
              /\ rollbar' = {}
              /\ ended' = NothingEnded
  /\ UNCHANGED <<insts, cmtInstances, activeWs, userKits, wsKits, kitsWatcher,
                 statusSubs, userFile, wsFile, rereads, prunes, retryPrompts>>

(***************************************************************************)
(* Kit reloads started by events                                           *)
(***************************************************************************)
NewReread == [pc |-> "readUser", user |-> <<>>, path |-> NoRoot]

\* the kits watcher reports an event: _rereadKits() starts (part_000:359)
KitsWatcherEvent ==
  /\ kitsWatcher.sub
  /\ Len(rereads) < MaxRereads
  /\ rereads' = Append(rereads, NewReread)
  /\ UNCHANGED <<insts, cmtInstances, activeWs, userKits, wsKits, kitsWatcher,
                 statusSubs, userFile, wsFile, tasks, cmds, prunes,
                 retryPrompts, ended, rollbar>>

\* a text document is saved: doc is "user" for the user kits file, or the
\* folder whose kits file it is (part_000:394-402)
EditorSaveEvent(doc) ==
  /\ Len(rereads) < MaxRereads
  /\ rereads' =
       IF doc = "user" \/ (WorkspaceKitsPath(activeWs) # NoRoot
                             /\ doc = WorkspaceKitsPath(activeWs))
         THEN Append(rereads, NewReread)
         ELSE rereads
  /\ UNCHANGED <<insts, cmtInstances, activeWs, userKits, wsKits, kitsWatcher,
                 statusSubs, userFile, wsFile, tasks, cmds, prunes,
                 retryPrompts, ended, rollbar>>

\* _setKnownKits({user, workspace}) and _startPruneOutdatedKitsAsync() at the
\* end of _rereadKits
RereadCommit(user, workspace) ==
  /\ userKits' = user
  /\ wsKits' = workspace
  /\ insts' = InstsSetKnownKits(insts, activeWs, cmtInstances, user, workspace)
  /\ rollbar' = GetterReport(activeWs, cmtInstances)
  /\ Len(PrunesStarted(prunes, user)) <= MaxPrunes
  /\ prunes' = PrunesStarted(prunes, user)

RereadReadUser(i) ==
  /\ i \in 1..Len(rereads)
  /\ rereads[i].pc = "readUser"
  /\ LET user == ReadKitsFile(userFile) IN
       IF WorkspaceKitsPath(activeWs) # NoRoot
         THEN /\ rereads' = [rereads EXCEPT ![i].pc = "readWs", ![i].user = user,
                                            ![i].path = WorkspaceKitsPath(activeWs)]
              /\ UNCHANGED <<insts, userKits, wsKits, prunes, rollbar>>
         ELSE /\ RereadCommit(Append(user, UnspecKit), <<>>)
              /\ rereads' = Without(rereads, i)
  /\ UNCHANGED <<cmtInstances, activeWs, kitsWatcher, statusSubs, userFile,
                 wsFile, tasks, cmds, retryPrompts, ended>>

RereadReadWs(i) ==
  /\ i \in 1..Len(rereads)
  /\ rereads[i].pc = "readWs"
  /\ RereadCommit(Append(rereads[i].user, UnspecKit),
                  ReadKitsFile(wsFile[rereads[i].path]))
  /\ rereads' = Without(rereads, i)
  /\ UNCHANGED <<cmtInstances, activeWs, kitsWatcher, statusSubs, userFile,
                 wsFile, tasks, cmds, retryPrompts, ended>>

(***************************************************************************)
(* The kits files change on disk                                           *)
(***************************************************************************)
EnvWriteUserFile(f) ==
  /\ f # userFile
  /\ userFile' = f
  /\ UNCHANGED <<insts, cmtInstances, activeWs, userKits, wsKits, kitsWatcher,
                 statusSubs, wsFile, tasks, rereads, cmds, prunes,
                 retryPrompts, ended, rollbar>>

EnvWriteWsFile(r, f) ==
  /\ f # wsFile[r]
  /\ wsFile' = [wsFile EXCEPT ![r] = f]
  /\ UNCHANGED <<insts, cmtInstances, activeWs, userKits, wsKits, kitsWatcher,
                 statusSubs, userFile, tasks, rereads, cmds, prunes,
                 retryPrompts, ended, rollbar>>

(***************************************************************************)
(* Writing the user kits file, pruning                                     *)
(***************************************************************************)
_writeUserKitsFile_NoSort(kits) ==
  {[arg |-> kits, sorted |-> StrippedKits(kits)]}

\* _writeUserKitsFile(kits) up to its first await: the array of the caller as
\* the call leaves it, and sorted_kits (part_000:537-550)
_writeUserKitsFile(kits) ==
  {[arg |-> kits, sorted |-> r] : r \in SortResults(StrippedKits(kits))}

\* fs.writeFile(USER_KITS_FILEPATH, JSON.stringify(sorted_kits, null, 2))
WrittenFile(sorted) == FileOf(Stringify(sorted))

NoWrite == [pc |-> "none", given |-> <<>>, arg |-> <<>>, sorted |-> <<>>]

\* a list about to be handed to _writeUserKitsFile
ToWrite(kits) == [pc |-> "called", given |-> kits, arg |-> kits, sorted |-> <<>>]

\* _writeUserKitsFile(kits) runs up to the await of the write
WriteCall ==
  /\ lastWrite.pc = "called"
  /\ \E w \in _writeUserKitsFile(lastWrite.given) :
       lastWrite' = [lastWrite EXCEPT !.pc = "writing", !.arg = w.arg,
                                      !.sorted = w.sorted]
  /\ UNCHANGED orchVars

\* the write settles: the file holds the text, or the "failed to write"
\* prompt opens and the call returns false (part_000:552-588)
WriteSettled(ok) ==
  /\ lastWrite.pc = "writing"
  /\ IF ok
       THEN /\ userFile' = WrittenFile(lastWrite.sorted)
            /\ retryPrompts' = retryPrompts
            /\ lastWrite' = [lastWrite EXCEPT !.pc = "written"]
       ELSE /\ retryPrompts < MaxRetryPrompts
            /\ retryPrompts' = retryPrompts + 1
            /\ userFile' = userFile
            /\ lastWrite' = [lastWrite EXCEPT !.pc = "failed"]
  /\ UNCHANGED <<insts, cmtInstances, activeWs, userKits, wsKits, kitsWatcher,
                 statusSubs, wsFile, tasks, rereads, cmds, prunes, ended, rollbar>>

\* the existence checks of a prune promise return
PruneChecked(i) ==
  /\ i \in 1..Len(prunes)
  /\ prunes[i].pc = "checking"
  /\ prunes' =
       IF \E lang \in DOMAIN prunes[i].kit.compilers :
            prunes[i].kit.compilers[lang] \in MissingPaths
         THEN [prunes EXCEPT ![i].pc = "prompt"]
         ELSE Without(prunes, i)
  /\ UNCHANGED <<insts, cmtInstances, activeWs, userKits, wsKits, kitsWatcher,
                 statusSubs, userFile, wsFile, tasks, rereads, cmds,
                 retryPrompts, ended, rollbar>>

\* new_kits of _keepKit(kit) (part_000:679-685)
KeptKits(kits, kit) ==
  [i \in 1..Len(kits) |->
     IF kits[i].name = kit.name THEN [kits[i] EXCEPT !.keep = TRUE] ELSE kits[i]]

RemainingKits_All(kits, kit) == kits

\* new_kits of _removeKit(kit) (part_000:695)
RemainingKits(kits, kit) == SelectSeq(kits, LAMBDA k : k.name # kit.name)

\* the user answers the prompt of a prune promise
PruneAnswer(i, chosen) ==
  /\ i \in 1..Len(prunes)
  /\ prunes[i].pc = "prompt"
  /\ IF chosen = "undefined"
       THEN /\ prunes' = Without(prunes, i)
            /\ UNCHANGED <<insts, userKits, wsKits, rollbar>>
       ELSE LET new_kits == IF chosen = "keep"
                              THEN KeptKits(userKits, prunes[i].kit)
                              ELSE RemainingKits(userKits, prunes[i].kit) IN
            \E w \in _writeUserKitsFile(new_kits) :
              /\ userKits' = w.arg
              /\ wsKits' = wsKits
              /\ insts' = InstsSetKnownKits(insts, activeWs, cmtInstances,
                                            new_kits, wsKits)
              /\ rollbar' = GetterReport(activeWs, cmtInstances)
              /\ prunes' = [prunes EXCEPT ![i].pc = "writing", ![i].chosen = chosen,
                                          ![i].sorted = w.sorted]
  /\ UNCHANGED <<cmtInstances, activeWs, kitsWatcher, statusSubs, userFile,
                 wsFile, tasks, rereads, cmds, retryPrompts, ended>>

\* the write of _keepKit or _removeKit settles
PruneWritten(i, ok) ==
  /\ i \in 1..Len(prunes)
  /\ prunes[i].pc = "writing"
  /\ IF ok
       THEN /\ userFile' = WrittenFile(prunes[i].sorted)
            /\ retryPrompts' = retryPrompts
       ELSE /\ retryPrompts < MaxRetryPrompts
            /\ retryPrompts' = retryPrompts + 1
            /\ userFile' = userFile
  /\ prunes' = Without(prunes, i)
  /\ UNCHANGED <<insts, cmtInstances, activeWs, userKits, wsKits, kitsWatcher,
                 statusSubs, wsFile, tasks, rereads, cmds, ended, rollbar>>

(***************************************************************************)
(* Commands: withCMakeTools, selectKit, scanForKits                        *)
(***************************************************************************)
PutByName_KeepsFlag(acc, kit) ==
  IF \E i \in 1..Len(acc) : acc[i].name = kit.name
    THEN [i \in 1..Len(acc) |->
            IF acc[i].name = kit.name THEN [kit EXCEPT !.keep = acc[i].keep]
                                      ELSE acc[i]]
    ELSE Append(acc, kit)

\* {...acc, [kit.name]: kit}: the entry of that name is replaced in place, a
\* new name is added as the last key
PutByName(acc, kit) ==
  IF \E i \in 1..Len(acc) : acc[i].name = kit.name
    THEN [i \in 1..Len(acc) |-> IF acc[i].name = kit.name THEN kit ELSE acc[i]]
    ELSE Append(acc, kit)

\* kits.reduce((acc, kit) => ({...acc, [kit.name]: kit}), acc), as the list
\* of the values in key order (part_000:501-513)
RECURSIVE ByName(_, _)
ByName(acc, kits) ==
  IF kits = <<>> THEN acc ELSE ByName(PutByName(acc, Head(kits)), Tail(kits))

NewCmd(kind, pc, cmt) ==
  [kind |-> kind, pc |-> pc, cmt |-> cmt, items |-> <<>>, old |-> <<>>,
   sorted |-> <<>>]

WithResult_Always(ensured) == "invoked"

\* what withCMakeTools does with the answer of _ensureActiveKit
\* (part_000:813-817)
WithResult(ensured) == IF ensured THEN "invoked" ELSE "default"

\* how a command ends once selectKit has returned did_choose_kit, I being
\* the instances at that moment (part_000:176-181)
AfterSelect(c, did_choose_kit, how, I) ==
  IF c.kind = "selectKit"
    THEN Ended(c.kind, c.cmt, how, IF did_choose_kit THEN "true" ELSE "false")
    ELSE Ended(c.kind, c.cmt, how,
               WithResult(did_choose_kit /\ I[c.cmt].kit.type # "null"))

\* selectKit() up to its first await, for the command c: _checkHaveKits
\* (part_000:700-709), then either the modal prompt or the quick pick.
\* Gives the command as it waits, or the way it ended.
SelectKitEntry(c, kits) ==
  IF Len(kits) > 1
    THEN [wait |-> TRUE, cmd |-> [c EXCEPT !.pc = "pick", !.items = kits],
          report |-> {}]
  ELSE IF Len(kits) = 0
    THEN [wait |-> FALSE, end |-> "threw", report |-> {}]
  ELSE IF kits[1].name # UnspecName
    THEN [wait |-> TRUE, cmd |-> [c EXCEPT !.pc = "pick", !.items = kits],
          report |-> {"invalid-only-kit"}]
  ELSE [wait |-> TRUE, cmd |-> [c EXCEPT !.pc = "modal"], report |-> {}]

\* a command wrapped in withCMakeTools is called (part_000:805-818)
StartWithCMakeTools(n) ==
  /\ Len(cmds) < n
  /\ LET cmt == ActiveCMakeTools(activeWs, cmtInstances)
         e == SelectKitEntry(NewCmd("with", "start", cmt), AllKits(userKits, wsKits)) IN
       /\ IF cmt = 0
            THEN /\ ended' = Ended("with", 0, "no-active", "default")
                 /\ cmds' = cmds
                 /\ rollbar' = GetterReport(activeWs, cmtInstances)
            ELSE IF insts[cmt].kit.type # "null"
              THEN /\ ended' = Ended("with", cmt, "has-kit", WithResult(TRUE))
                   /\ cmds' = cmds
                   /\ rollbar' = rollbar
              ELSE /\ rollbar' = e.report
                   /\ IF e.wait
                        THEN /\ cmds' = Append(cmds, e.cmd)
                             /\ ended' = ended
                        ELSE /\ cmds' = cmds
                             /\ ended' = Ended("with", cmt, "none", e.end)
  /\ UNCHANGED <<insts, cmtInstances, activeWs, userKits, wsKits, kitsWatcher,
                 statusSubs, userFile, wsFile, tasks, rereads, prunes,
                 retryPrompts>>

\* the command cmake.selectKit is called (part_000:757)
StartSelectKit(n) ==
  /\ Len(cmds) < n
  /\ LET e == SelectKitEntry(NewCmd("selectKit", "start", 0), AllKits(userKits, wsKits)) IN
       /\ rollbar' = e.report
       /\ IF e.wait
            THEN /\ cmds' = Append(cmds, e.cmd)
                 /\ ended' = ended
            ELSE /\ cmds' = cmds
                 /\ ended' = Ended("selectKit", 0, "none", e.end)
  /\ UNCHANGED <<insts, cmtInstances, activeWs, userKits, wsKits, kitsWatcher,
                 statusSubs, userFile, wsFile, tasks, rereads, prunes,
                 retryPrompts>>

\* scanForKits() up to the await of the discovery (part_000:495-506)
ScanEntry(c) == [c EXCEPT !.pc = "discover", !.old = ByName(<<>>, userKits)]

\* the command cmake.scanForKits is called
StartScanForKits(n) ==
  /\ Len(cmds) < n
  /\ cmds' = Append(cmds, ScanEntry(NewCmd("scanForKits", "start", 0)))
  /\ UNCHANGED <<insts, cmtInstances, activeWs, userKits, wsKits, kitsWatcher,
                 statusSubs, userFile, wsFile, tasks, rereads, prunes,
                 retryPrompts, ended, rollbar>>

\* the user answers the modal prompt of _checkHaveKits (part_000:730-751)
CmdModalAnswer(i, chosen) ==
  /\ i \in 1..Len(cmds)
  /\ cmds[i].pc = "modal"
  /\ CASE chosen = "cancel" ->
            /\ ended' = AfterSelect(cmds[i], FALSE, "cancel", insts)
            /\ cmds' = Without(cmds, i)
            /\ UNCHANGED <<insts, rollbar>>
       [] chosen = "scan" ->
            /\ cmds' = [cmds EXCEPT ![i] = ScanEntry(cmds[i])]
            /\ UNCHANGED <<insts, ended, rollbar>>
       [] chosen = "use-unspec" ->
            LET I1 == InstsSetCurrentKit(insts, activeWs, cmtInstances, UnspecKit) IN
            /\ insts' = I1
            /\ rollbar' = GetterReport(activeWs, cmtInstances)
            /\ ended' = AfterSelect(cmds[i], TRUE, "use-unspec", I1)
            /\ cmds' = Without(cmds, i)
  /\ UNCHANGED <<cmtInstances, activeWs, userKits, wsKits, kitsWatcher,
                 statusSubs, userFile, wsFile, tasks, rereads, prunes,
                 retryPrompts>>

\* the discovery of a scan returns: the kits are merged by name, set as
\* known, and the write of the user kits file begins (part_000:506-515)
CmdDiscovered(i, discovered_kits) ==
  /\ i \in 1..Len(cmds)
  /\ cmds[i].pc = "discover"
  /\ LET new_kits == ByName(cmds[i].old, discovered_kits) IN
       \E w \in _writeUserKitsFile(new_kits) :
         /\ userKits' = w.arg
         /\ wsKits' = wsKits
         /\ insts' = InstsSetKnownKits(insts, activeWs, cmtInstances, new_kits, wsKits)
         /\ rollbar' = GetterReport(activeWs, cmtInstances)
         /\ cmds' = [cmds EXCEPT ![i].pc = "writing", ![i].sorted = w.sorted,
                                 ![i].old = <<>>]
  /\ UNCHANGED <<cmtInstances, activeWs, kitsWatcher, statusSubs, userFile,
                 wsFile, tasks, rereads, prunes, retryPrompts, ended>>

\* the write of a scan settles; pruning starts; a scan that _checkHaveKits
\* started goes on to the quick pick (part_000:515-516, 741-742, 779-786)
CmdWritten(i, ok) ==
  /\ i \in 1..Len(cmds)
  /\ cmds[i].pc = "writing"
  /\ IF ok
       THEN /\ userFile' = WrittenFile(cmds[i].sorted)
            /\ retryPrompts' = retryPrompts
       ELSE /\ retryPrompts < MaxRetryPrompts
            /\ retryPrompts' = retryPrompts + 1
            /\ userFile' = userFile
  /\ Len(PrunesStarted(prunes, userKits)) <= MaxPrunes
  /\ prunes' = PrunesStarted(prunes, userKits)
  /\ IF cmds[i].kind = "scanForKits"
       THEN /\ cmds' = Without(cmds, i)
            /\ ended' = Ended("scanForKits", 0, "none", "done")
       ELSE /\ cmds' = [cmds EXCEPT ![i].pc = "pick", ![i].sorted = <<>>,
                                    ![i].items = AllKits(userKits, wsKits)]
            /\ ended' = ended
  /\ UNCHANGED <<insts, cmtInstances, activeWs, userKits, wsKits, kitsWatcher,
                 statusSubs, wsFile, tasks, rereads, rollbar>>

\* the user answers the quick pick of selectKit: 0 for no selection, or the
\* index of an item (part_000:786-795)
CmdPickAnswer(i, chosen) ==
  /\ i \in 1..Len(cmds)
  /\ cmds[i].pc = "pick"
  /\ chosen \in 0..Len(cmds[i].items)
  /\ IF chosen = 0
       THEN /\ ended' = AfterSelect(cmds[i], FALSE, "cancel", insts)
            /\ UNCHANGED <<insts, rollbar>>
       ELSE LET I1 == InstsSetCurrentKit(insts, activeWs, cmtInstances,
                                         cmds[i].items[chosen]) IN
            /\ insts' = I1
            /\ rollbar' = GetterReport(activeWs, cmtInstances)
            /\ ended' = AfterSelect(cmds[i], TRUE, "picked", I1)
  /\ cmds' = Without(cmds, i)
  /\ UNCHANGED <<cmtInstances, activeWs, userKits, wsKits, kitsWatcher,
                 statusSubs, userFile, wsFile, tasks, rereads, prunes,
                 retryPrompts>>

RetryStarts_Always(choice) == TRUE

\* whether the answer to the 'failed to write' prompt starts scanForKits
\* (part_000:575-584); "undefined" is a dismissal
RetryStarts(choice) == choice = "retry"

\* the user answers the prompt of a failed write (part_000:575-585)
RetryAnswer(choice, n) ==
  /\ retryPrompts > 0
  /\ retryPrompts' = retryPrompts - 1
  /\ IF RetryStarts(choice)
       THEN /\ Len(cmds) < n
            /\ cmds' = Append(cmds, ScanEntry(NewCmd("scanForKits", "start", 0)))
       ELSE cmds' = cmds
  /\ ended' = Ended("retry-kit-save-fail", 0, choice, "none")
  /\ UNCHANGED <<insts, cmtInstances, activeWs, userKits, wsKits, kitsWatcher,
                 statusSubs, userFile, wsFile, tasks, rereads, prunes, rollbar>>

(***************************************************************************)
(* Specifications                                                          *)
(***************************************************************************)
OrchInitWs(files, wsfiles) ==
  /\ insts = <<>>
  /\ cmtInstances = [r \in Roots |-> 0]
  /\ activeWs = NoRoot
  /\ userKits = <<>>
  /\ wsKits = <<>>
  /\ kitsWatcher = [ws |-> NoRoot, sub |-> FALSE, live |-> 1]
  /\ statusSubs = 0
  /\ userFile \in files
  /\ wsFile \in wsfiles
  /\ tasks = <<>>
  /\ rereads = <<>>
  /\ cmds = <<>>
  /\ prunes = <<>>
  /\ retryPrompts = 0
  /\ ended = NothingEnded
  /\ rollbar = {}
  /\ shutdown = NoShutdown

OrchInit(files) == OrchInitWs(files, {[r \in Roots |-> NoFile]})

WriteInit == lastWrite = NoWrite

Init == DriverInit /\ OrchInit(UserFileChoices) /\ WriteInit

\* no result and no report is waiting to be taken
Idle == ended = NothingEnded /\ rollbar = {}

\* workspace folders are added and removed
TaskSteps(R) ==
  \/ Idle /\ \E ws \in R : addWorkspaceFolder(ws) /\ UNCHANGED restVars
  \/ Idle /\ \E ws \in R : _removeWorkspaceFolder(ws) /\ UNCHANGED restVars
  \/ Idle /\ \E i \in 1..MaxTasks : AddStart(i) /\ UNCHANGED restVars
  \/ Idle /\ \E i \in 1..MaxTasks, ok \in BOOLEAN : AddCreated(i, ok) /\ UNCHANGED restVars
  \/ Idle /\ \E i \in 1..MaxTasks : RemoveStart(i) /\ UNCHANGED restVars
  \/ Idle /\ \E i \in 1..MaxTasks : TaskReadUser(i) /\ UNCHANGED restVars
  \/ Idle /\ \E i \in 1..MaxTasks : TaskReadWs(i) /\ UNCHANGED restVars
  \/ Idle /\ \E i \in 1..MaxTasks : TaskDisposed(i) /\ UNCHANGED restVars
  \/ TakeResult /\ UNCHANGED restVars

\* the active folder is set by direct calls
ActivateSteps(R) ==
  \/ Idle /\ \E ws \in R : _setActiveWorkspaceFolder(ws) /\ UNCHANGED restVars
  \/ Idle /\ \E i \in 1..MaxTasks : ActivateStart(i) /\ UNCHANGED restVars

\* kit reloads started by the watcher and by editor saves
WatcherSteps ==
  \/ Idle /\ KitsWatcherEvent /\ UNCHANGED restVars
  \/ Idle /\ \E i \in 1..MaxRereads : RereadReadUser(i) /\ UNCHANGED restVars
  \/ Idle /\ \E i \in 1..MaxRereads : RereadReadWs(i) /\ UNCHANGED restVars

EditorSteps ==
  \/ Idle /\ \E doc \in {"user"} \cup Roots : EditorSaveEvent(doc) /\ UNCHANGED restVars

\* the user kits file is edited
UserFileSteps ==
  \/ Idle /\ \E f \in UserFileChoices : EnvWriteUserFile(f) /\ UNCHANGED restVars

\* the kits file of a folder is edited
WsFileSteps ==
  \/ Idle /\ \E r \in Roots : \E f \in WsFileChoices(r) :
                EnvWriteWsFile(r, f) /\ UNCHANGED restVars

\* outdated kits are pruned
PruneSteps ==
  \/ Idle /\ \E i \in 1..MaxPrunes : PruneChecked(i) /\ UNCHANGED restVars
  \/ Idle /\ \E i \in 1..MaxPrunes, chosen \in {"undefined", "keep", "remove"} :
                PruneAnswer(i, chosen) /\ UNCHANGED restVars
  \/ Idle /\ \E i \in 1..MaxPrunes, ok \in BOOLEAN : PruneWritten(i, ok) /\ UNCHANGED restVars

\* commands that run with an instance, and kit selection, at most n at a time
StartSteps(n) ==
  \/ Idle /\ StartWithCMakeTools(n) /\ UNCHANGED restVars
  \/ Idle /\ StartSelectKit(n) /\ UNCHANGED restVars

\* the user answers the "no kits" message
ModalSteps ==
  \/ Idle /\ \E i \in 1..MaxRacing, chosen \in {"cancel", "scan", "use-unspec"} :
                CmdModalAnswer(i, chosen) /\ UNCHANGED restVars

\* the user answers the kit picker
PickSteps ==
  \/ Idle /\ \E i \in 1..MaxRacing, chosen \in 0..MaxItems :
                CmdPickAnswer(i, chosen) /\ UNCHANGED restVars

\* the scan command
ScanSteps(n) ==
  \/ Idle /\ StartScanForKits(n) /\ UNCHANGED restVars

\* a scan runs and writes, the write ending as one of oks
ScanRunSteps(oks) ==
  \/ Idle /\ \E i \in 1..MaxRacing, d \in ScanChoices : CmdDiscovered(i, d) /\ UNCHANGED restVars
  \/ Idle /\ \E i \in 1..MaxRacing, ok \in oks : CmdWritten(i, ok) /\ UNCHANGED restVars

\* the prompt of a failed write is answered
RetrySteps(n) ==
  \/ Idle /\ \E choice \in {"retry", "cancel", "undefined"} : RetryAnswer(choice, n) /\ UNCHANGED restVars

\* folders, kit files and reloads
Next ==
  TaskSteps(Roots) \/ WatcherSteps \/ EditorSteps \/ UserFileSteps \/ WsFileSteps

Spec == Init /\ [][Next]_vars

\* one folder, reloads, edits of the user kits file, and one command at a time
NextCmds ==
  TaskSteps({"w1"}) \/ WatcherSteps \/ UserFileSteps \/ StartSteps(MaxCmds)
    \/ ModalSteps \/ PickSteps \/ ScanSteps(MaxCmds) \/ ScanRunSteps(BOOLEAN)
    \/ RetrySteps(MaxCmds)

SpecCmds == Init /\ [][NextCmds]_vars

\* two commands race with the removal of the folder, over a user kits file
\* that does not exist until a scan writes it; every write succeeds
InitRacing == DriverInit /\ OrchInit({NoFile}) /\ WriteInit

NextRacing ==
  TaskSteps({"w1"}) \/ StartSteps(MaxRacing) \/ ModalSteps \/ PickSteps
    \/ ScanRunSteps({TRUE})

SpecRacing == InitRacing /\ [][NextRacing]_vars

\* two folders are added and removed while commands are called, one at a time
NextRoots ==
  TaskSteps(Roots) \/ StartSteps(MaxCmds) \/ ModalSteps \/ PickSteps
    \/ ScanRunSteps({TRUE})

SpecRoots == InitRacing /\ [][NextRoots]_vars

\* two folders are added and removed, and the extension is shut down: no
\* folder is added or removed once asyncDispose has been called, the tasks
\* queued or in flight then go on
NextShutdown ==
  \/ Idle /\ shutdown.pc = "none" /\ \E ws \in Roots : addWorkspaceFolder(ws) /\ UNCHANGED restVars
  \/ Idle /\ shutdown.pc = "none" /\ \E ws \in Roots : _removeWorkspaceFolder(ws) /\ UNCHANGED restVars
  \/ Idle /\ \E i \in 1..MaxTasks : AddStart(i) /\ UNCHANGED restVars
  \/ Idle /\ \E i \in 1..MaxTasks, ok \in BOOLEAN : AddCreated(i, ok) /\ UNCHANGED restVars
  \/ Idle /\ \E i \in 1..MaxTasks : RemoveStart(i) /\ UNCHANGED restVars
  \/ Idle /\ \E i \in 1..MaxTasks : TaskReadUser(i) /\ UNCHANGED restVars
  \/ Idle /\ \E i \in 1..MaxTasks : TaskReadWs(i) /\ UNCHANGED restVars
  \/ Idle /\ \E i \in 1..MaxTasks : TaskDisposed(i) /\ UNCHANGED restVars
  \/ TakeResult /\ UNCHANGED restVars
  \/ Idle /\ asyncDispose /\ UNCHANGED <<driverVars, writeVars, confVars, cacheVars, gateVars>>
  \/ Idle /\ AsyncDisposeResumes /\ UNCHANGED <<driverVars, writeVars, confVars, cacheVars, gateVars>>

SpecShutdown == InitRacing /\ [][NextShutdown]_vars

\* kits whose compiler is gone are pruned from the user kits file
InitPrune ==
  /\ DriverInit
  /\ OrchInitWs({OutdatedUserFile, TwiceOutdatedUserFile}, {OutdatedWsFiles})
  /\ WriteInit

\* a 'failed to write' prompt stays open: retryPrompts tells that a write failed
NextPrune == TaskSteps({"w1"}) \/ PruneSteps

SpecPrune == InitPrune /\ [][NextPrune]_vars

\* _writeUserKitsFile on its own, given any list of WriteLists
InitWrite ==
  /\ DriverInit
  /\ OrchInit({NoFile})
  /\ lastWrite \in {ToWrite(kits) : kits \in WriteLists}

NextWrite ==
  \/ WriteCall /\ UNCHANGED <<driverVars, confVars, cacheVars, gateVars, shutVars>>
  \/ \E ok \in BOOLEAN : WriteSettled(ok) /\ UNCHANGED <<driverVars, confVars, cacheVars, gateVars, shutVars>>
  \/ ScanRunSteps(BOOLEAN)
  \/ RetrySteps(MaxCmds)
  \/ TakeResult /\ UNCHANGED restVars

SpecWrite == InitWrite /\ [][NextWrite]_vars

\* a scan merges what it discovers into a user list with a kept kit, next
\* to a project-local kit
ScanMergeSteps ==
  \/ Idle /\ \E i \in 1..MaxCmds, d \in MergeChoices : CmdDiscovered(i, d) /\ UNCHANGED restVars
  \/ Idle /\ \E i \in 1..MaxCmds, ok \in BOOLEAN : CmdWritten(i, ok) /\ UNCHANGED restVars

InitScan == DriverInit /\ OrchInitWs({KeptUserFile}, {LocalWsFiles}) /\ WriteInit

NextScan ==
  TaskSteps({"w1"}) \/ ScanSteps(MaxCmds) \/ ScanMergeSteps \/ RetrySteps(MaxCmds)

SpecScan == InitScan /\ [][NextScan]_vars

NextDriver ==
  \/ \E k \in DriverKits : DriverSetKit(k) /\ UNCHANGED <<orchVars, writeVars, confVars, cacheVars, gateVars, shutVars>>
  \/ \E i \in 1..MaxPending, ok \in BOOLEAN : DriverEnvResolved(i, ok) /\ UNCHANGED <<orchVars, writeVars, confVars, cacheVars, gateVars, shutVars>>
  \/ \E env \in OptionEnvs : executeCommand(env) /\ UNCHANGED <<orchVars, writeVars, confVars, cacheVars, gateVars, shutVars>>

SpecDriver == Init /\ [][NextDriver]_vars

\* one driver: variants are set, configures succeed, and _prepareConfigure
\* is called, under each value of cmake.configureSettings
InitConfigure ==
  /\ KitInit
  /\ ConfInit(SettingsChoices)
  /\ CacheInit({NoCacheFile})
  /\ GateIdleInit
  /\ OrchInit({NoFile})
  /\ WriteInit

NextConfigure ==
  \/ \E opts \in VariantOptions :
       setVariantOptions(opts) /\ UNCHANGED <<driverVars, orchVars, writeVars, cacheVars, gateVars, shutVars>>
  \/ \E gen \in Generators : Configured(gen) /\ UNCHANGED <<driverVars, orchVars, writeVars, cacheVars, gateVars, shutVars>>
  \/ PrepareConfigure /\ UNCHANGED <<driverVars, orchVars, writeVars, cacheVars, gateVars, shutVars>>

SpecConfigure == InitConfigure /\ [][NextConfigure]_vars

\* one driver: _init, changes of the cache file and the reloads they start
InitCache ==
  /\ KitInit
  /\ ConfInit({<<>>})
  /\ CacheInit({NoCacheFile, MalformedCacheFile} \cup CacheFileChoices)
  /\ GateIdleInit
  /\ OrchInit({NoFile})
  /\ WriteInit

NextCache ==
  \/ CacheInitStart /\ UNCHANGED <<driverVars, orchVars, writeVars, confVars, gateVars, shutVars>>
  \/ \E f \in CacheFileChoices \cup {MalformedCacheFile} :
       CacheFileChanged(f) /\ UNCHANGED <<driverVars, orchVars, writeVars, confVars, gateVars, shutVars>>
  \/ \E i \in 1..MaxCacheReloads :
       CacheReloadRead(i) /\ UNCHANGED <<driverVars, orchVars, writeVars, confVars, gateVars, shutVars>>
  \/ \E i \in 1..MaxCacheReloads :
       CacheReloadDone(i) /\ UNCHANGED <<driverVars, orchVars, writeVars, confVars, gateVars, shutVars>>
  \/ \E i \in 1..MaxCacheReloads :
       CacheReloadThrows(i) /\ UNCHANGED <<driverVars, orchVars, writeVars, confVars, gateVars, shutVars>>

SpecCache == InitCache /\ [][NextCache]_vars

\* One driver: configure operations at the pre-configure gate.
InitGate ==
  /\ KitInit
  /\ ConfInit({<<>>})
  /\ CacheInit({NoCacheFile})
  /\ GateInit
  /\ OrchInit({NoFile})
  /\ WriteInit

NextGate ==
  \/ BeforeConfigure /\ UNCHANGED <<driverVars, orchVars, writeVars, confVars, cacheVars, shutVars>>
  \/ \E i \in 1..MaxConfigures, exists \in BOOLEAN :
       BeforeExists(i, exists) /\ UNCHANGED <<driverVars, orchVars, writeVars, confVars, cacheVars, shutVars>>
  \/ \E i \in 1..MaxConfigures, do_quickstart \in {Undefined, "Quickstart a new CMake project"} :
       BeforeQuickstart(i, do_quickstart) /\ UNCHANGED <<driverVars, orchVars, writeVars, confVars, cacheVars, shutVars>>
  \/ \E i \in 1..MaxConfigures, save_good \in BOOLEAN :
       BeforeSaved(i, save_good) /\ UNCHANGED <<driverVars, orchVars, writeVars, confVars, cacheVars, shutVars>>
  \/ \E i \in 1..MaxConfigures, chosen \in {Undefined, "Yes", "No"} :
       BeforeAsked(i, chosen) /\ UNCHANGED <<driverVars, orchVars, writeVars, confVars, cacheVars, shutVars>>
  \/ \E i \in 1..MaxConfigures :
       ConfigureEnds(i) /\ UNCHANGED <<driverVars, orchVars, writeVars, confVars, cacheVars, shutVars>>

SpecGate == InitGate /\ [][NextGate]_vars


\* Folders are added and removed, and the active folder is set, to a folder
\* or to none.
NextActive == TaskSteps(Roots) \/ ActivateSteps(Roots \cup {NoRoot})

SpecActive == Init /\ [][NextActive]_vars

\* the folders an event removes, and those it adds
RemovedChoices == {<<>>, <<"w1">>}

AddedChoices == {<<>>, <<"w1">>, <<"w2">>, <<"w1", "w2">>}

\* Workspace folders events, one at a time: every addWorkspaceFolder and
\* _removeWorkspaceFolder is a call of _onWorkspaceFoldersChanged.
NextFolders ==
  \/ Idle /\ \E removed \in RemovedChoices, added \in AddedChoices :
       FoldersChanged(removed, added) /\ UNCHANGED restVars
  \/ FoldersHandlerResumes /\ UNCHANGED restVars
  \/ Idle /\ \E i \in 1..MaxTasks : AddStart(i) /\ UNCHANGED restVars
  \/ Idle /\ \E i \in 1..MaxTasks, ok \in BOOLEAN : AddCreated(i, ok) /\ UNCHANGED restVars
  \/ Idle /\ \E i \in 1..MaxTasks : RemoveStart(i) /\ UNCHANGED restVars
  \/ Idle /\ \E i \in 1..MaxTasks : TaskReadUser(i) /\ UNCHANGED restVars
  \/ Idle /\ \E i \in 1..MaxTasks : TaskReadWs(i) /\ UNCHANGED restVars
  \/ Idle /\ \E i \in 1..MaxTasks : TaskDisposed(i) /\ UNCHANGED restVars
  \/ ended.kind \notin {"add", "remove"} /\ TakeResult /\ UNCHANGED restVars

SpecFolders == Init /\ [][NextFolders]_vars

(***************************************************************************)
(* Properties                                                              *)
(***************************************************************************)
\* the task at the head of the strand is the only one that may have begun
Running(t) == t.pc # "queued"

\* C1: the bodies of addWorkspaceFolder and _removeWorkspaceFolder run one
\* at a time in the order they were submitted: only the oldest unfinished
\* task is ever past its start, and a step changes the tasks only by
\* submitting a new one at the end or by advancing or finishing the oldest.
C1_StrandSerial ==
  [][/\ \A i \in 2..Len(tasks') : ~Running(tasks'[i])
     /\ \/ Len(tasks') >= Len(tasks) /\ SubSeq(tasks', 1, Len(tasks)) = tasks
        \/ /\ tasks # <<>>
           /\ Len(tasks') = Len(tasks)
           /\ Tail(tasks') = Tail(tasks)
        \/ tasks # <<>> /\ tasks' = Tail(tasks)]_vars

\* a task is suspended in its body while the next one waits
C1_Witness ==
  /\ Len(tasks) = 2
  /\ tasks[1].pc \in {"creating", "readUser", "readWs", "disposing"}
  /\ tasks[2].pc = "queued"

\* the oldest task is an add that starts in this step
AddBegins ==
  /\ tasks # <<>>
  /\ tasks[1].op = "add"
  /\ tasks[1].pc = "queued"
  /\ \/ Len(tasks') < Len(tasks)
     \/ Len(tasks') = Len(tasks) /\ tasks'[1] # tasks[1]

\* C2: when addWorkspaceFolder runs for a root that has an instance in the
\* map, the call returns that instance without throwing, no instance is
\* created, the map and the active root stay as they are, and the error is
\* reported.
C2_DoubleAdd ==
  [][(AddBegins /\ cmtInstances[tasks[1].ws] # 0) =>
       /\ ended' = Ended("add", cmtInstances[tasks[1].ws], "double", "returned")
       /\ insts' = insts
       /\ cmtInstances' = cmtInstances
       /\ activeWs' = activeWs
       /\ "double-loaded" \in rollbar']_vars

\* an add for a loaded root has just returned the instance of the map
C2_Witness ==
  /\ ended.kind = "add"
  /\ ended.how = "double"
  /\ ended.cmt # 0
  /\ \E ws \in Roots : cmtInstances[ws] = ended.cmt
  /\ "double-loaded" \in rollbar

\* a command wrapped in withCMakeTools returns in this step
WithReturns == ended' # ended /\ ended'.kind = "with"

\* C3: a command wrapped in withCMakeTools returns the default value, and
\* does not call the backend operation, when no root is active and when the
\* instance has no kit and the user cancels the selection of a kit.
C3_DefaultOnDecline ==
  [][/\ (WithReturns /\ cmds' = cmds /\ ActiveCMakeTools(activeWs, cmtInstances) = 0)
          => ended'.result = "default"
     /\ (WithReturns /\ ended'.how = "cancel") => ended'.result = "default"]_vars

\* the user has cancelled the selection for an instance without a kit
C3_Witness ==
  /\ ended.kind = "with"
  /\ ended.how = "cancel"
  /\ ended.cmt # 0
  /\ insts[ended.cmt].kit.type = "null"
  /\ ended.result = "default"

\* C4: the backend operation of a command is called only on the instance
\* that is active when it is called, only when that instance has a kit, and
\* never on an instance that has left the map or has been disposed.
C4_InvokedOnActive ==
  (ended.kind = "with" /\ ended.result = "invoked") =>
    /\ ended.cmt = ActiveCMakeTools(activeWs, cmtInstances)
    /\ insts[ended.cmt].kit.type # "null"
    /\ insts[ended.cmt].state = "live"
    /\ cmtInstances[insts[ended.cmt].root] = ended.cmt

\* the kits of a list with the name n
Named(kits, n) == {i \in 1..Len(kits) : kits[i].name = n}

\* C5: the merged kit set holds at most one kit per name, and a
\* project-local kit is the entry of the merged set under its name.
C5_OnePerName ==
  LET all == AllKits(userKits, wsKits) IN
  /\ \A i, j \in 1..Len(all) : all[i].name = all[j].name => i = j
  /\ \A i \in 1..Len(wsKits) : FindKit(all, wsKits[i].name) = wsKits[i]

\* C6: in every state the merged kit set holds exactly one kit named
\* __unspec__.
C6_OneUnspec == Cardinality(Named(AllKits(userKits, wsKits), UnspecName)) = 1

\* C7: between two compiler kits _kitChangeNeedsClean returns true only if
\* a language that both kits have has a different compiler path: a language
\* that only the previous kit has does not make it return true.
C7_SharedLanguages ==
  (/\ lastClean.called
   /\ lastClean.prev.type = "compilerKit"
   /\ lastClean.kit.type = "compilerKit"
   /\ lastClean.ret) =>
    \E lang \in DOMAIN lastClean.prev.compilers \cap DOMAIN lastClean.kit.compilers :
      lastClean.prev.compilers[lang] # lastClean.kit.compilers[lang]

\* C8: _kitChangeNeedsClean returns false without a previous kit, true when
\* the type of the kit changes, for two toolchain kits whether the toolchain
\* files differ, and for two VS kits whether the Visual Studio or the
\* architecture differs.
C8_CleanRules ==
  LET prev == lastClean.prev
      kit == lastClean.kit IN
  lastClean.called =>
    /\ prev.type = "null" => ~lastClean.ret
    /\ (prev.type # "null" /\ kit.type # prev.type) => lastClean.ret
    /\ (prev.type = "toolchainKit" /\ kit.type = "toolchainKit") =>
         (lastClean.ret <=> kit.toolchainFile # prev.toolchainFile)
    /\ (prev.type = "vsKit" /\ kit.type = "vsKit") =>
         (lastClean.ret <=>
            \/ kit.visualStudio # prev.visualStudio
            \/ kit.visualStudioArchitecture # prev.visualStudioArchitecture)

\* a VS kit replaced a VS kit of the same Visual Studio and another
\* architecture
C8_Witness ==
  /\ lastClean.called
  /\ lastClean.prev.type = "vsKit"
  /\ lastClean.kit.type = "vsKit"
  /\ lastClean.kit.visualStudio = lastClean.prev.visualStudio
  /\ lastClean.kit.visualStudioArchitecture # lastClean.prev.visualStudioArchitecture
  /\ lastClean.ret

Count(kits, k) == Cardinality({i \in 1..Len(kits) : kits[i] = k})

\* C10: a write of _writeUserKitsFile that succeeds leaves a file that holds
\* no kit named __unspec__, holds every other kit of the list as often as
\* the list does, and is in ascending order of name, so that reading it gives
\* the list sorted without the sentinel; the list of the caller is as it was.
C10_WriteRoundTrip ==
  [][(lastWrite.pc = "writing" /\ lastWrite'.pc = "written") =>
       LET loaded == ReadKitsFile(userFile') IN
       /\ userFile'.exists
       /\ \A i \in 1..Len(loaded) : loaded[i].name # UnspecName
       /\ Len(loaded) = Len(lastWrite.given) - Count(lastWrite.given, UnspecKit)
       /\ \A k \in WriteKits \ {UnspecKit} : Count(loaded, k) = Count(lastWrite.given, k)
       /\ \A i, j \in 1..Len(loaded) :
            i < j => ~NameLess(loaded[j].name, loaded[i].name)
       /\ lastWrite'.arg = lastWrite.given]_vars

\* an unsorted list with the sentinel in it has been written
C10_Witness ==
  /\ lastWrite.pc = "written"
  /\ lastWrite.given = <<KitC, UnspecKit, KitA>>
  /\ ReadKitsFile(userFile) = <<KitA, KitC>>

\* the prune promise i asks the user in this step
Issued(i) ==
  /\ i \in 1..Len(prunes)
  /\ prunes[i].pc = "checking"
  /\ Len(prunes') = Len(prunes)
  /\ prunes'[i].pc = "prompt"

\* C11: a decision request is never issued for a user kit that has keep set,
\* for a kit without compilers, for a project-local kit or for a kit whose
\* compilers all exist.
C11_RequestOnlyForOutdated ==
  [][\A i \in 1..Len(prunes) :
       Issued(i) =>
         LET k == prunes[i].kit IN
         /\ \A j \in Named(userKits, k.name) : ~userKits[j].keep
         /\ HasCompilers(k)
         /\ \A j \in 1..Len(wsKits) : wsKits[j] # k
         /\ \E lang \in DOMAIN k.compilers : k.compilers[lang] \in MissingPaths]_vars

\* C12: while the user has not answered, an outdated user kit has one decision
\* request open, however many reloads have started a pruning pass.
C12_OneRequestPerKit ==
  \A i, j \in 1..Len(prunes) :
    /\ prunes[i].pc = "prompt"
    /\ prunes[j].pc = "prompt"
    /\ prunes[i].kit.name = prunes[j].kit.name
    => i = j

\* the user answers the request of prune promise i with action c in this step
Answered(i, c) ==
  /\ i \in 1..Len(prunes)
  /\ prunes[i].pc = "prompt"
  /\ Len(prunes') = Len(prunes)
  /\ prunes'[i].pc = "writing"
  /\ prunes'[i].chosen = c

\* the user dismisses the request of prune promise i in this step
Dismissed(i) ==
  /\ i \in 1..Len(prunes)
  /\ prunes[i].pc = "prompt"
  /\ prunes' = Without(prunes, i)

\* the write of the decision of prune promise i completes in this step
DecisionWritten(i, c) ==
  /\ i \in 1..Len(prunes)
  /\ prunes[i].pc = "writing"
  /\ prunes[i].chosen = c
  /\ prunes' = Without(prunes, i)
  /\ retryPrompts' = retryPrompts

\* every kit of kits but those named n is the same, at the same place, in new
OthersUnchanged(kits, new, n) ==
  /\ Len(new) = Len(kits)
  /\ \A j \in 1..Len(kits) : kits[j].name # n => new[j] = kits[j]

C14_FileFollowsDecisions ==
  [][\A i \in 1..Len(prunes) :
       /\ DecisionWritten(i, "keep") \/ DecisionWritten(i, "remove")
       /\ retryPrompts = 0
       /\ tasks = <<>>
       /\ \A j \in 1..Len(prunes') : prunes'[j].pc # "writing"
       => ReadKitsFile(userFile') \in SortResults(StrippedKits(userKits'))]_vars

\* the names of the kits of a list
Names(kits) == {kits[j].name : j \in 1..Len(kits)}

\* the scan of command i sets its result as the known kits in this step
ScanCommitted(i) ==
  /\ i \in 1..Len(cmds)
  /\ cmds[i].pc = "discover"
  /\ Len(cmds') = Len(cmds)
  /\ cmds'[i].pc = "writing"

\* C15: a scan removes no user kit: every kit name of the in-memory user list
\* (the sentinel aside) just before the scan sets its result is in the list afterwards, whatever
\* reloads ran during the discovery.
C15_ScanKeepsUserKits ==
  [][\A i \in 1..Len(cmds) :
       ScanCommitted(i) =>
         Names(StrippedKits(userKits)) \subseteq Names(userKits')]_vars

\* new is old with the kits of d put in by name
Merged(old, d, new) ==
  /\ \A j \in 1..Len(d) :
       /\ Cardinality(Named(new, d[j].name)) = 1
       /\ \A m \in Named(new, d[j].name) : new[m] = d[j]
  /\ \A j \in 1..Len(old) : old[j].name \notin Names(d) => new[j] = old[j]
  /\ Names(new) = Names(old) \cup Names(d)
  /\ Len(new) = Len(old) + Cardinality(Names(d) \ Names(old))

\* C16: the user list a scan sets is the user list it read when it started
\* with the discovered kits put in by name: a discovered kit replaces the
\* entry of its name whole (keep included), a new name is added, an entry
\* without a discovered match is unchanged; the project-local kits are
\* unchanged and the list handed to the file is the new user list without
\* the sentinel.
C16_ScanMergesByName ==
  [][\A i \in 1..Len(cmds) :
       ScanCommitted(i) =>
         /\ \E d \in MergeChoices : Merged(cmds[i].old, d, userKits')
         /\ wsKits' = wsKits
         /\ cmds'[i].sorted \in SortResults(StrippedKits(userKits'))]_vars

\* a scan has replaced the kept kit B by the discovered one and added the
\* kit named a, beside the project-local kit A
C16_Witness ==
  /\ \E i \in 1..Len(cmds) : cmds[i].pc = "writing"
  /\ \E j \in 1..Len(userKits) : userKits[j] = KitBFound
  /\ \E j \in 1..Len(userKits) : userKits[j] = KitLower
  /\ \E j \in 1..Len(userKits) : userKits[j] = KitC
  /\ wsKits = <<KitALocal>>

\* a write of the user kits file fails in this step
WriteFails == retryPrompts' = retryPrompts + 1

\* the 'failed to write' prompt is answered with choice in this step
RetryAnswered(choice) ==
  /\ retryPrompts' = retryPrompts - 1
  /\ ended'.kind = "retry-kit-save-fail"
  /\ ended'.how = choice

\* C17: a failed write returns false without throwing and leaves the user
\* kits, the project-local kits and the file as they were; a scan is started
\* again only by the answer 'retry'; on 'cancel' or a dismissal nothing is
\* started or written and the kits stay as they were.
C17_WriteFailure ==
  [][/\ WriteFails =>
          /\ userKits' = userKits /\ wsKits' = wsKits /\ userFile' = userFile
          /\ lastWrite.pc = "writing" => lastWrite'.pc = "failed"
          /\ Len(cmds') <= Len(cmds)
     /\ Len(cmds') > Len(cmds) => RetryAnswered("retry")
     /\ RetryAnswered("cancel") \/ RetryAnswered("undefined") =>
          /\ cmds' = cmds /\ lastWrite' = lastWrite
          /\ userKits' = userKits /\ wsKits' = wsKits /\ userFile' = userFile]_vars

\* a write has failed, the prompt was answered 'cancel', and the kits set
\* before the write are still the user kits while the file never came to be
C17_Witness ==
  /\ ended.kind = "retry-kit-save-fail"
  /\ ended.how = "cancel"
  /\ cmds = <<>>
  /\ userKits # <<>>
  /\ ~userFile.exists

\* the key and the value in the text of a define flag
FlagKey(flag) == flag[2]

FlagValue(flag) == flag[Len(flag)]

\* the places of the define flags for key k in a list of flags
FlagsFor(flags, k) == {i \in 2..Len(flags) : FlagKey(flags[i]) = k}

SettingKeys(list) == {list[i].key : i \in 1..Len(list)}

\* the value the last entry for k gives it
LastValue(list, k) ==
  list[CHOOSE i \in 1..Len(list) :
         /\ list[i].key = k
         /\ \A j \in (i + 1)..Len(list) : list[j].key # k].value

\* the four layers of the settings: the keys they define and the value each
\* key ends with, c being a call of _prepareConfigure
LayerKeys(c) ==
  SettingKeys(c.settings) \cup SettingKeys(c.variant)
    \cup {"CMAKE_EXPORT_COMPILE_COMMANDS"}
    \cup (IF c.linkage # Null THEN {"BUILD_SHARED_LIBS"} ELSE {})

LayerValue(c, k) ==
  IF k = "CMAKE_EXPORT_COMPILE_COMMANDS" THEN JsBool(TRUE)
  ELSE IF k = "BUILD_SHARED_LIBS" /\ c.linkage # Null THEN JsBool(c.linkage = "shared")
  ELSE IF k \in SettingKeys(c.variant) THEN LastValue(c.variant, k)
  ELSE LastValue(c.settings, k)

\* the generator of the call c is a single-configuration one, or not known
SingleConf(c) == c.generator \notin {"Visual Studio 15 2017", "Xcode"}

\* C18 as stated: the list starts with the warning-suppression flag and has
\* exactly one define flag for each key of the four layers, with the value
\* of the topmost layer that defines the key: forced export, linkage,
\* variant, global default.
C18_Layering ==
  lastConfigure.called =>
    LET c == lastConfigure IN
    /\ c.flags[1] = NoWarnFlag
    /\ \A k \in LayerKeys(c) :
         /\ Cardinality(FlagsFor(c.flags, k)) = 1
         /\ \A i \in FlagsFor(c.flags, k) :
              FlagValue(c.flags[i]) = Cmakeify(LayerValue(c, k)).value

\* C18, amended: the same, with the build type as a fifth and topmost layer
\* for the key CMAKE_BUILD_TYPE unless the generator is a
\* multi-configuration one; the list holds nothing else.
C18_LayeringWithBuildType ==
  lastConfigure.called =>
    LET c == lastConfigure
        keys == LayerKeys(c) \cup (IF SingleConf(c) THEN {"CMAKE_BUILD_TYPE"} ELSE {})
        value(k) == IF k = "CMAKE_BUILD_TYPE" /\ SingleConf(c)
                      THEN JsStr(c.buildType) ELSE LayerValue(c, k) IN
    /\ c.flags[1] = NoWarnFlag
    /\ Len(c.flags) = 1 + Cardinality(keys)
    /\ \A k \in keys :
         /\ Cardinality(FlagsFor(c.flags, k)) = 1
         /\ \A i \in FlagsFor(c.flags, k) :
              FlagValue(c.flags[i]) = Cmakeify(value(k)).value

\* _prepareConfigure has run with a global X, a variant that overrides X and
\* adds Y, global values for the two forced keys, and linkage 'shared'
C18_Witness ==
  /\ lastConfigure.called
  /\ "X" \in SettingKeys(lastConfigure.settings)
  /\ "BUILD_SHARED_LIBS" \in SettingKeys(lastConfigure.settings)
  /\ "CMAKE_EXPORT_COMPILE_COMMANDS" \in SettingKeys(lastConfigure.settings)
  /\ {"X", "Y"} \subseteq SettingKeys(lastConfigure.variant)
  /\ lastConfigure.linkage = "shared"

ReloadFinishes == Len(cacheReloads') < Len(cacheReloads)

\* C20: a cache reload fires the project name exactly when the new cache has
\* a project name that differs from the project name before the reload, and
\* then once, with the new name; otherwise it fires nothing.
C20_FiresOnChange ==
  [][ReloadFinishes =>
       fired' = IF /\ projectName(cmakeCache') # Null
                   /\ projectName(cmakeCache') # projectName(cmakeCache)
                  THEN <<projectName(cmakeCache')>>
                  ELSE <<>>]_vars

\* C21: when the last of the overlapping cache reloads that the watcher
\* started finishes, the cache is what the reload requested last has read,
\* which is what the cache file holds, in whatever order the reads completed.
C21_LastReloadWins ==
  [][/\ cachePc = "ready"
     /\ Len(cacheReloads) = 1
     /\ cacheReloads[1].new_cache # Rejected
     /\ cacheReloads' = <<>>
     => cmakeCache' = FromPath(cacheFile')]_vars

RejectedIn(rs) == {i \in 1..Len(rs) : rs[i].new_cache = Rejected}

\* a reload whose fromPath has rejected ends in this step
ReloadFails == Cardinality(RejectedIn(cacheReloads')) < Cardinality(RejectedIn(cacheReloads))

\* C23: a reload that fails on a malformed cache is not swallowed (it is
\* reported by rollbar, or thrown to the caller of _init), leaves the cache as
\* it was, fires no project name, and leaves the driver with its watcher
\* subscribed, so that later changes start reloads.
C23_FailedReload ==
  [][ReloadFails =>
       /\ cacheRollbar' = <<"Reloading CMake Cache">> \/ cachePc' = "threw"
       /\ cmakeCache' = cmakeCache
       /\ fired' = <<>>
       /\ cachePc' = "ready"]_vars

\* the operations that are past the gate: their _beforeConfigure returned true
PastGate == {i \in 1..Len(configures) : configures[i].pc = "configuring"}

\* C24: at most one configure operation of a driver is past the pre-configure
\* gate at a time.
C24_OnePastGate == Cardinality(PastGate) <= 1

\* a _setBaseKit call runs up to its end or its await in this step
SetBaseKitRuns == ~lastResolve'.done /\ ~lastExec'.called

\* the driver is as the one suspended _setBaseKit call has left it
LeftAlone ==
  /\ Len(envPending) = 1
  /\ baseKit = envPending[1]
  /\ kitEnv = NoEnv

RereadStarts(i) ==
  /\ i \in 1..Len(tasks)
  /\ i \in 1..Len(tasks')
  /\ tasks[i].pc # "readUser"
  /\ tasks'[i].pc = "readUser"

\* _setActiveWorkspaceFolder sets the active folder in this step
ActiveIsSet ==
  \/ activeWs' # activeWs
  \/ \E i \in 1..Len(tasks) : tasks[i].op = "activate" /\ RereadStarts(i)

\* C25: whenever the active folder is set, the watcher is replaced by one that
\* covers the user kits file and the kits file of the new active folder, one
\* watcher is alive, and a kit reload is started; at all times at most one
\* watcher is alive and it covers the kits file of the active folder.
C25_WatcherFollowsActive ==
  [][/\ ActiveIsSet =>
          /\ kitsWatcher' = [ws |-> WorkspaceKitsPath(activeWs'), sub |-> TRUE,
                             live |-> 1]
          /\ \E i \in 1..Len(tasks) : RereadStarts(i)
     /\ kitsWatcher'.live <= 1
     /\ kitsWatcher'.ws = WorkspaceKitsPath(activeWs')]_vars

\* the active folder has been set from one folder to another, and the reload
\* of that call is reading
C25_Witness ==
  /\ activeWs = "w2"
  /\ kitsWatcher = [ws |-> "w2", sub |-> TRUE, live |-> 1]
  /\ cmtInstances["w1"] # 0
  /\ \E i \in 1..Len(tasks) : tasks[i].op = "activate" /\ tasks[i].pc = "readUser"

\* the task at the head of the strand runs in this step
HeadRuns ==
  \/ Len(tasks') < Len(tasks)
  \/ Len(tasks') = Len(tasks) /\ tasks'[1] # tasks[1]

\* the call of _setActiveWorkspaceFolder at the head of the strand, for a
\* folder without instance, runs in this step
ActivateRefused ==
  /\ Len(tasks) > 0
  /\ tasks[1].op = "activate"
  /\ tasks[1].pc = "queued"
  /\ tasks[1].ws # NoRoot
  /\ cmtInstances[tasks[1].ws] = 0
  /\ HeadRuns

\* C26: setting the active folder to a folder without instance is reported
\* and changes nothing: not the active folder, the watcher, the kit lists or
\* the status subscriptions, and no reload is started.
C26_NoInstanceNoOp ==
  [][ActivateRefused =>
       /\ rollbar' = {"no-instance-ready"}
       /\ ended' = Ended("activate", 0, "no-instance", "returned")
       /\ tasks' = Tail(tasks)
       /\ UNCHANGED <<activeWs, kitsWatcher, userKits, wsKits, statusSubs,
                      rereads, insts, cmtInstances, prunes>>]_vars

\* a folder without instance has been refused while another folder is active
C26_Witness ==
  /\ rollbar = {"no-instance-ready"}
  /\ ended = Ended("activate", 0, "no-instance", "returned")
  /\ activeWs # NoRoot
  /\ kitsWatcher.sub

\* the removal at the head of the strand is of a folder without instance and
\* runs in this step
RemoveUnknown ==
  /\ Len(tasks) > 0
  /\ tasks[1].op = "remove"
  /\ tasks[1].pc = "queued"
  /\ cmtInstances[tasks[1].ws] = 0
  /\ HeadRuns

\* C27: removing a folder that has no instance is reported and changes
\* nothing: the map and the active folder are as before, no instance is
\* disposed, and the call returns.
C27_RemoveUnknownNoOp ==
  [][RemoveUnknown =>
       /\ rollbar' = {"remove-unknown"}
       /\ ended' = Ended("remove", 0, "unknown", "returned")
       /\ tasks' = Tail(tasks)
       /\ UNCHANGED <<cmtInstances, activeWs, insts, kitsWatcher, userKits,
                      wsKits, statusSubs>>]_vars

\* an unknown folder has been removed while another folder has a live
\* instance and is active
C27_Witness ==
  /\ rollbar = {"remove-unknown"}
  /\ ended = Ended("remove", 0, "unknown", "returned")
  /\ activeWs # NoRoot
  /\ \E r \in Roots : cmtInstances[r] # 0 /\ insts[cmtInstances[r]].state = "live"

\* the merged kits are at most one kit and hold no __unspec__
LacksSentinel ==
  /\ Len(AllKits(userKits, wsKits)) <= 1
  /\ \A i \in 1..Len(AllKits(userKits, wsKits)) :
       AllKits(userKits, wsKits)[i].name # UnspecName

\* the command selectKit is called in this step, and waits or ends
SelectKitCalled ==
  \/ /\ Len(cmds') = Len(cmds) + 1
     /\ cmds'[Len(cmds')].kind = "selectKit"
     /\ cmds'[Len(cmds')].pc \in {"pick", "modal"}
  \/ /\ cmds' = cmds
     /\ ended = NothingEnded
     /\ ended'.kind = "selectKit"

\* C28: selectKit called while the merged kits lack __unspec__ reports it to
\* rollbar and does not throw.
C28_SelectKitReports ==
  [][SelectKitCalled /\ LacksSentinel =>
       /\ rollbar' = {"invalid-only-kit"}
       /\ ended'.result # "threw"]_vars

\* the call that the handler of a folders event awaits has rejected, and
\* the handler resumes in this step
HandlerSeesFailure ==
  /\ Len(cmds) = 1
  /\ cmds[1].kind = "foldersChanged"
  /\ ended.kind = "add"
  /\ ended.result = "rejected"
  /\ ended' # ended

\* C29: when the registration of a folder fails, the map has no entry for the
\* folder made by that task, and the folders that the same event still has
\* to add are added: the handler makes its next call.
C29_FailureDoesNotStopOthers ==
  [][HandlerSeesFailure =>
       /\ ended.cmt = 0
       /\ cmds[1].items # <<>> =>
            tasks' = Append(tasks, NewTask(Head(cmds[1].items).op,
                                           Head(cmds[1].items).ws))]_vars

\* C37: _beforeConfigure returns true only for a driver that was not busy at
\* entry and has a source directory, when the list file exists and either
\* save-before-build is off, or saveAll succeeded, or the user answered Yes;
\* a call that finds the driver busy returns false and has asked nothing; a
\* call that finds no list file returns false, whatever the answer to the
\* quickstart offer.
C37_BeforeConfigureReturn ==
  lastBefore.returned =>
    /\ lastBefore.ret =>
         /\ ~lastBefore.op.busy
         /\ Truthy(lastBefore.sourceDir)
         /\ lastBefore.op.exists = "yes"
         /\ \/ ~saveBeforeBuild
            \/ lastBefore.op.save_good = "yes"
            \/ lastBefore.op.chosen = "Yes"
    /\ lastBefore.op.busy =>
         /\ ~lastBefore.ret
         /\ lastBefore.op.exists = "none"
         /\ lastBefore.op.save_good = "none"
         /\ lastBefore.op.chosen = "none"
         /\ lastBefore.op.do_quickstart = "none"
    /\ lastBefore.op.exists = "no" => ~lastBefore.ret

\* a call has returned true after saveAll failed and the user answered Yes
C37_Witness ==
  /\ lastBefore.returned
  /\ lastBefore.ret
  /\ saveBeforeBuild
  /\ lastBefore.op.save_good = "no"
  /\ lastBefore.op.chosen = "Yes"

\* the step is a call of setVariantOptions
VariantCall == lastVariant'.called

\* the step is a call of _prepareConfigure
PrepareRuns == lastConfigure'.called /\ lastConfigure' # lastConfigure

\* the flags are made from the stored variant: the build type (unless the
\* generator is a multi-configuration one), the linkage if there is one, and
\* the variant's settings for the keys no higher layer sets
FlagsUseVariant(flags) ==
  LET one(k, v) == /\ Cardinality(FlagsFor(flags, k)) = 1
                   /\ \A i \in FlagsFor(flags, k) : FlagValue(flags[i]) = v
      above == {"CMAKE_EXPORT_COMPILE_COMMANDS", "CMAKE_BUILD_TYPE", "BUILD_SHARED_LIBS"} IN
  /\ ~isMultiConf(generatorName) => one("CMAKE_BUILD_TYPE", variantBuildType)
  /\ variantLinkage = "shared" => one("BUILD_SHARED_LIBS", "TRUE")
  /\ variantLinkage = "static" => one("BUILD_SHARED_LIBS", "FALSE")
  /\ \A k \in SettingKeys(variantConfigureSettings) \ above :
       one(k, Cmakeify(LastValue(variantConfigureSettings, k)).value)

\* C36: setVariantOptions replaces the build type and the configure-argument
\* overrides only when the new options provide them (an omitted or empty
\* build type, or omitted settings, keeps the value of the previous variant),
\* resets the linkage to null whenever the new options do not provide it, and
\* changes no other state of the driver; the next _prepareConfigure makes its
\* flags from exactly these stored values.
C36_SetVariantOptions ==
  [][/\ VariantCall =>
          LET opts == lastVariant'.opts IN
          /\ variantBuildType' =
               IF opts.buildType \in {Undefined, ""} THEN variantBuildType
               ELSE opts.buildType
          /\ variantConfigureSettings' =
               IF opts.has_settings THEN opts.settings ELSE variantConfigureSettings
          /\ variantLinkage' =
               IF opts.linkage = Undefined THEN Null ELSE opts.linkage
          /\ UNCHANGED <<configureSettings, generatorName, lastConfigure,
                         driverVars, cacheVars, gateVars>>
     /\ PrepareRuns =>
          /\ FlagsUseVariant(lastConfigure'.flags)
          /\ UNCHANGED <<variantBuildType, variantConfigureSettings, variantLinkage>>
    ]_vars

\* after a variant with build type Release, settings and linkage 'shared', a
\* variant that gives none of the three has been set: the build type and the
\* settings are kept, the linkage is gone
C36_Witness ==
  /\ lastVariant.called
  /\ lastVariant.opts.buildType \in {Undefined, ""}
  /\ ~lastVariant.opts.has_settings
  /\ lastVariant.opts.linkage = Undefined
  /\ variantBuildType = "Release"
  /\ variantConfigureSettings # <<>>
  /\ variantLinkage = Null

\* the environment a driver with the kit k holds when none of its
\* _setBaseKit calls is suspended: the resolved one of a VS kit (none when
\* the resolution failed), none for any other kit
EnvFitsKit(env, k) ==
  IF k.type = "vsKit" THEN env \in {NoEnv, VSEnvOf(k)} ELSE env = NoEnv

\* C34: whenever no _setBaseKit call is in flight on a driver, its resolved
\* environment is that of its current kit (the resolved mapping of a VS kit,
\* empty for any other kit), also when kit changes overlap, and no command
\* the driver executes runs with the environment of another kit.
C34_EnvOfCurrentKit ==
  /\ envPending = <<>> => EnvFitsKit(kitEnv, baseKit)
  /\ lastExec.called => EnvFitsKit(lastExec.environment.kit, lastExec.baseKit)

\* C32: in every reachable state the map holds an instance for the active
\* folder, if there is one, and the getter _activeCMakeTools never reports
\* that it found none.
C32_ActiveHasInstance ==
  /\ activeWs # NoRoot => CMakeToolsFor(cmtInstances, activeWs) # 0
  /\ "no-active-impossible" \notin rollbar

\* a folder is active, with its instance in the map, after a folder has been
\* removed and its instance disposed
C32_Witness ==
  /\ activeWs # NoRoot
  /\ CMakeToolsFor(cmtInstances, activeWs) # 0
  /\ \E j \in 1..Len(insts) : insts[j].state = "disposed"

\* the head task, an addition, has its instance created in this step
AddCreates(ws) ==
  /\ tasks # <<>>
  /\ tasks[1].op = "add"
  /\ tasks[1].ws = ws
  /\ tasks[1].pc = "creating"
  /\ CMakeToolsFor(cmtInstances, ws) = 0
  /\ CMakeToolsFor(cmtInstances', ws) # 0

\* the head task, a removal, starts in this step
RemoveStarts(ws) ==
  /\ tasks # <<>>
  /\ tasks[1].op = "remove"
  /\ tasks[1].ws = ws
  /\ tasks[1].pc = "queued"
  /\ HeadRuns

\* withCMakeTools is called and returns in this step: no command that was
\* waiting for an answer ends in it
WithCalled == ended = NothingEnded /\ ended'.kind = "with" /\ cmds' = cmds

\* C33: the active folder changes only from none to a folder registered in
\* that step, and from a folder to none when that folder is unregistered;
\* registering a further folder leaves it as it is, unregistering the active
\* folder makes no other folder active, and withCMakeTools, called while no
\* folder is active, returns its default.
C33_ActiveChanges ==
  [][/\ activeWs' # activeWs =>
          \/ activeWs = NoRoot /\ activeWs' \in Roots /\ AddCreates(activeWs')
          \/ activeWs \in Roots /\ activeWs' = NoRoot /\ RemoveStarts(activeWs)
     /\ \A ws \in Roots : AddCreates(ws) /\ activeWs # NoRoot => activeWs' = activeWs
     /\ WithCalled /\ activeWs = NoRoot => ended'.result = "default"
    ]_vars

\* withCMakeTools has returned its default with no folder active while a
\* folder is registered: the active one has been removed
C33_Witness ==
  /\ ended.kind = "with"
  /\ ended.result = "default"
  /\ activeWs = NoRoot
  /\ \E ws \in Roots : CMakeToolsFor(cmtInstances, ws) # 0
  /\ \E j \in 1..Len(insts) : insts[j].state = "disposed"

\* C31: every instance is disposed of exactly once: a removal takes the
\* instance out of the map before it disposes of it, no instance has
\* asyncDispose called on it twice, and once asyncDispose of the extension
\* has completed and the tasks that were queued or in flight have ended,
\* every instance ever created has been disposed of.
C31_DisposedOnce ==
  /\ \A i \in 1..Len(tasks) :
       tasks[i].pc = "disposing" =>
         CMakeToolsFor(cmtInstances, tasks[i].ws) # tasks[i].inst
  /\ \A j \in 1..Len(insts) : insts[j].state # "twice"
  /\ shutdown.pc = "done" /\ tasks = <<>> =>
       \A j \in 1..Len(insts) : insts[j].state = "disposed"

\* the kit of the active instance (NullKit with no instance active). The
\* model holds one kit for an instance: the kit of its driver, which
\* setKit(null) leaves as it is.
ActiveKit ==
  LET cmt == ActiveCMakeTools(activeWs, cmtInstances) IN
  IF cmt = 0 THEN NullKit ELSE insts[cmt].kit

\* the kit of the active instance is null or the entry of its name in the
\* merged kits
KitIsEntry ==
  \/ ActiveKit = NullKit
  \/ FindKit(AllKits(userKits, wsKits), ActiveKit.name) = ActiveKit

\* the same for a kit whose name the merged kits have: a kit whose name they
\* have not is one that _setKnownKits has called setKit(null) for
KitIsEntryIfNamed ==
  \/ KitIsEntry
  \/ FindKit(AllKits(userKits, wsKits), ActiveKit.name) = NullKit

\* no kit selection, no folder task and no reload is in flight
Quiet == cmds = <<>> /\ tasks = <<>> /\ rereads = <<>>

\* the quick pick of a kit selection is answered with a kit in this step
PickSets ==
  /\ \E i \in 1..Len(cmds) : cmds[i].pc = "pick"
  /\ Len(cmds') < Len(cmds)
  /\ ended'.how = "picked"

\* C35: once the kit lists have been applied and no kit selection is in
\* flight, the kit of the active instance is null or the entry of its name in
\* the merged kits, also after the answer to a kit picker that was built from
\* earlier lists.
C35_ActiveKitIsKnown ==
  [][/\ Quiet' => KitIsEntryIfNamed'
     /\ PickSets /\ Quiet' => KitIsEntry'
    ]_vars

====
